---------------------------- MODULE Spec2Model ----------------------------
(***************************************************************************)
(* A model of xcsv (src/src/lib.rs): the streaming worksheet-to-CSV        *)
(* converter export_sheet_xml_to_csv, the style resolver parse_styles and  *)
(* the pure helpers col_to_index, parse_cell_ref and                       *)
(* excel_serial_to_iso_date.                                               *)
(*                                                                         *)
(* Text is a sequence of one-character strings, so that trimming, parsing, *)
(* case mapping and formatting are computed character by character as the  *)
(* code computes them.  An Option is a sequence of at most one element.     *)
(***************************************************************************)
EXTENDS Integers, Sequences, FiniteSets, TLC

None == <<>>
Some(x) == <<x>>
IsSome(o) == o # <<>>
Unwrap(o) == o[1]

\* ------------------------------------------------------------------ bounds
\* Longest column-letter string handed to col_to_index.
MaxColLen == 2
\* Most records the converter may write before the model stops feeding rows:
\* in the grid streams of Spec, and in the row-number streams of SpecRows.
MaxRecords == 2
MaxRowRecords == 5
\* Most cells a worksheet stream of the model holds.
MaxCells == 2
\* Most text fragments appended to cell_val between two clears.
MaxFrags == 2
\* Whole-number day serials up to SerialWindow away from an anchor serial.
SerialWindow == 400
\* Style records carry the format ids 0 .. MaxFmtId (and two custom ids).
MaxFmtId == 90
\* Longest cell address handed to parse_cell_ref on its own.
MaxRefLen == 3
\* Longest sheet name handed to to_lowercase_filename.
MaxNameLen == 3

\* --------------------------------------------------------------- characters
UpperSeq == <<"A","B","C","D","E","F","G","H","I","J","K","L","M",
              "N","O","P","Q","R","S","T","U","V","W","X","Y","Z">>
LowerSeq == <<"a","b","c","d","e","f","g","h","i","j","k","l","m",
              "n","o","p","q","r","s","t","u","v","w","x","y","z">>
DigitSeq == <<"0","1","2","3","4","5","6","7","8","9">>

Range(s) == {s[i] : i \in 1..Len(s)}
UpperSet == Range(UpperSeq)
LowerSet == Range(LowerSeq)
DigitSet == Range(DigitSeq)

IndexIn(s, c) == CHOOSE i \in 1..Len(s) : s[i] = c

\* b - b'A' + 1 for an uppercase byte b
UpperOrd(c) == IndexIn(UpperSeq, c)
DigitVal(c) == IndexIn(DigitSeq, c) - 1
DigitCh(n) == DigitSeq[n + 1]

is_ascii_alphabetic(c) == c \in UpperSet \cup LowerSet
to_ascii_uppercase(c) == IF c \in LowerSet THEN UpperSeq[IndexIn(LowerSeq, c)] ELSE c
to_ascii_lowercase(c) == IF c \in UpperSet THEN LowerSeq[IndexIn(UpperSeq, c)] ELSE c
is_whitespace(c) == c = " "

MapSeq(s, Op(_)) == [i \in 1..Len(s) |-> Op(s[i])]
to_lowercase(s) == MapSeq(s, to_ascii_lowercase)
to_uppercase(s) == MapSeq(s, to_ascii_uppercase)
contains(s, c) == \E i \in 1..Len(s) : s[i] = c

ends_with(s, suffix) ==
  /\ Len(s) >= Len(suffix)
  /\ SubSeq(s, Len(s) - Len(suffix) + 1, Len(s)) = suffix

\* str::trim: drop the leading and the trailing whitespace
RECURSIVE trim_start(_)
trim_start(s) ==
  IF s # <<>> /\ is_whitespace(Head(s)) THEN trim_start(Tail(s)) ELSE s

RECURSIVE trim_end(_)
trim_end(s) ==
  IF s # <<>> /\ is_whitespace(s[Len(s)])
  THEN trim_end(SubSeq(s, 1, Len(s) - 1)) ELSE s

trim(s) == trim_end(trim_start(s))

\* ----------------------------------------------------------- number parsing
AllDigits(s) == \A i \in 1..Len(s) : s[i] \in DigitSet

\* i32::MAX, where "serial.floor() as i32" saturates; i32::MIN is one below
\* its negation.
I32Max == 2147483647

\* The value of a digit string, accumulated from the left.  A value that
\* would pass I32Max is kept as I32Max: the model compares parsed numbers only
\* with table lengths, row numbers and day counts below it.
RECURSIVE DigitsValue(_, _)
DigitsValue(s, acc) ==
  IF s = <<>> THEN acc
  ELSE IF acc > (I32Max - 9) \div 10 THEN I32Max
  ELSE DigitsValue(Tail(s), acc * 10 + DigitVal(Head(s)))

\* str::parse::<u32>() / ::<usize>(): an optional '+', then one or more digits
\* (no '-', no blanks), as an Option (.ok()).
ParseUnsigned(s) ==
  LET body == IF s # <<>> /\ Head(s) = "+" THEN Tail(s) ELSE s
  IN IF body # <<>> /\ AllDigits(body) THEN Some(DigitsValue(body, 0)) ELSE None

\* str::parse::<f64>() on the decimal texts of the model: an optional sign,
\* then digits with an optional fraction ("12", "12.", "12.5", ".5").  The
\* number is kept exactly, as sign, whole part and fraction num / den; the
\* texts of the model have at most four fraction digits.
\* Err is None.
ParseF64(s) ==
  LET neg  == s # <<>> /\ Head(s) = "-"
      body == IF s # <<>> /\ Head(s) \in {"+", "-"} THEN Tail(s) ELSE s
      dots == {i \in 1..Len(body) : body[i] = "."}
      dot  == IF dots = {} THEN Len(body) + 1 ELSE CHOOSE i \in dots : TRUE
      ip   == SubSeq(body, 1, dot - 1)
      fp   == SubSeq(body, dot + 1, Len(body))
      RECURSIVE Pow10(_)
      Pow10(n) == IF n = 0 THEN 1 ELSE 10 * Pow10(n - 1)
  IN IF /\ Cardinality(dots) <= 1
        /\ AllDigits(ip) /\ AllDigits(fp)
        /\ Len(ip) + Len(fp) >= 1
     THEN Some([neg |-> neg, int |-> DigitsValue(ip, 0),
                num |-> DigitsValue(fp, 0), den |-> Pow10(Len(fp))])
     ELSE None

\* A whole number as an f64.
WholeF64(d) == [neg |-> d < 0, int |-> IF d < 0 THEN -d ELSE d, num |-> 0, den |-> 1]


\* ------------------------------------------------------------ cell addresses
\* fn tag_eq_ignore_case(actual, expect)
tag_eq_ignore_case(actual, expect) ==
  \/ to_lowercase(actual) = to_lowercase(expect)
  \/ ends_with(actual, expect)
  \/ ends_with(actual, to_lowercase(expect))
  \/ ends_with(actual, to_uppercase(expect))

\* A decoding that counts the letters from zero (A=0..Z=25).
RECURSIVE col_loop_zero_based(_, _)
col_loop_zero_based(bytes, n) ==
  IF bytes = <<>> THEN n
  ELSE IF Head(bytes) \notin UpperSet THEN n
  ELSE col_loop_zero_based(Tail(bytes), n * 26 + UpperOrd(Head(bytes)) - 1)

\* n * 26 + d in u32, computed on the 16-bit halves of n: whether the exact
\* value leaves the u32 range, and the value a build without overflow checks
\* keeps (the exact value modulo 2^32).  Values from 2^31 up are beyond TLC's
\* integers; the column letters of the model stay below.
MulAdd26Overflows(n, d) ==
  ((n \div 65536) * 26) + (((n % 65536) * 26 + d) \div 65536) >= 65536

wrapping_mul_add_26(n, d) ==
  LET t == (n % 65536) * 26 + d
      u == ((n \div 65536) * 26) + (t \div 65536)
  IN (u % 65536) * 65536 + (t % 65536)

\* The loop of col_to_index: stop at the first byte outside 'A'..='Z',
\* otherwise n = n * 26 + (b - b'A' + 1), as a build without overflow checks
\* computes it.
RECURSIVE col_loop(_, _)
col_loop(bytes, n) ==
  IF bytes = <<>> THEN n
  ELSE IF Head(bytes) \notin UpperSet THEN n
  ELSE col_loop(Tail(bytes), wrapping_mul_add_26(n, UpperOrd(Head(bytes))))

\* Some turn of the loop of col_to_index leaves the u32 range (a build with
\* overflow checks panics there).
RECURSIVE ColOverflows(_, _)
ColOverflows(bytes, n) ==
  /\ bytes # <<>>
  /\ Head(bytes) \in UpperSet
  /\ \/ MulAdd26Overflows(n, UpperOrd(Head(bytes)))
     \/ ColOverflows(Tail(bytes), wrapping_mul_add_26(n, UpperOrd(Head(bytes))))

\* pub fn col_to_index(col: &str) -> u32
col_to_index(col) == col_loop(col, 0)

\* A parse that asks only for a letter part and reads a bad row as 0.
parse_cell_ref_letters_only(s) ==
  LET col == to_uppercase(SelectSeq(s, is_ascii_alphabetic))
      NotAlpha(ch) == ~is_ascii_alphabetic(ch)
      row == SelectSeq(s, NotAlpha)
  IN IF col = <<>> THEN None
     ELSE Some([col |-> col_to_index(col),
                row |-> IF ParseUnsigned(row) = None THEN 0
                        ELSE Unwrap(ParseUnsigned(row))])

\* pub fn parse_cell_ref(s: &str) -> Option<CellRef>
parse_cell_ref(s) ==
  LET col == to_uppercase(SelectSeq(s, is_ascii_alphabetic))
      NotAlpha(ch) == ~is_ascii_alphabetic(ch)
      row == SelectSeq(s, NotAlpha)
  IN IF col = <<>> \/ row = <<>> THEN None
     ELSE IF ParseUnsigned(row) = None THEN None
     ELSE Some([col |-> col_to_index(col), row |-> Unwrap(ParseUnsigned(row))])

\* parse_cell_ref reaches col_to_index (a letter part and a rest that are not
\* empty) with letters whose value leaves the u32 range.
CellRefOverflows(s) ==
  LET col == to_uppercase(SelectSeq(s, is_ascii_alphabetic))
      NotAlpha(ch) == ~is_ascii_alphabetic(ch)
      row == SelectSeq(s, NotAlpha)
  IN col # <<>> /\ row # <<>> /\ ColOverflows(col, 0)

\* ---------------------------------------------------------------- file names
\* c.is_ascii_alphanumeric() || c == '-' || c == '_'
is_filename_char(c) ==
  c \in UpperSet \cup LowerSet \cup DigitSet \cup {"-", "_"}

\* A mapping that drops the other characters instead of replacing them.
to_lowercase_filename_dropping(name) ==
  LET kept == SelectSeq(name, is_filename_char)
      mapped == [i \in 1..Len(kept) |-> to_ascii_lowercase(kept[i])]
  IN IF mapped = <<>> THEN <<"s","h","e","e","t">> ELSE mapped

\* pub fn to_lowercase_filename(name: &str) -> String
to_lowercase_filename(name) ==
  LET mapped == [i \in 1..Len(name) |->
                   IF is_filename_char(name[i]) THEN to_ascii_lowercase(name[i])
                   ELSE "_"]
  IN IF mapped = <<>> THEN <<"s","h","e","e","t">> ELSE mapped

\* ------------------------------------------------------------- serial dates
\* lib.rs:336 and lib.rs:338
EpochDays1904 == 24107
EpochDays1900 == 25569
\* const SECONDS_PER_DAY
SECONDS_PER_DAY == 86400

\* chrono's representable days, counted from 1970-01-01:
\* NaiveDate::MIN = -262143-01-01 and NaiveDate::MAX = +262142-12-31.
MinUnixDays == -96465293
MaxUnixDays == 95026236

\* The proleptic Gregorian date of a day count from 1970-01-01, as chrono's
\* NaiveDate computes it (400-year cycles of 146097 days).
CivilFromDays(z0) ==
  LET z   == z0 + 719468
      era == z \div 146097
      doe == z - era * 146097
      yoe == (doe - doe \div 1460 + doe \div 36524 - doe \div 146096) \div 365
      doy == doe - (365 * yoe + yoe \div 4 - yoe \div 100)
      mp  == (5 * doy + 2) \div 153
      d   == doy - (153 * mp + 2) \div 5 + 1
      m   == IF mp < 10 THEN mp + 3 ELSE mp - 9
      y   == yoe + era * 400 + (IF m <= 2 THEN 1 ELSE 0)
  IN [year |-> y, month |-> m, day |-> d]

\* DateTime::from_timestamp(secs, 0) with secs given as whole days plus
\* seconds (chrono itself splits secs with div_euclid / rem_euclid by 86400):
\* None outside the representable range.
from_timestamp(unix_days, unix_secs) ==
  LET days == unix_days + unix_secs \div SECONDS_PER_DAY
      sod  == unix_secs % SECONDS_PER_DAY
  IN IF days < MinUnixDays \/ days > MaxUnixDays THEN None
     ELSE Some([date |-> CivilFromDays(days),
                hour |-> sod \div 3600,
                min  |-> (sod % 3600) \div 60,
                sec  |-> sod % 60])

\* Decimal digits of n >= 0, zero-padded to at least w characters.
RECURSIVE Digits(_, _)
Digits(n, w) ==
  IF n < 10 /\ w <= 1 THEN <<DigitCh(n)>>
  ELSE Append(Digits(n \div 10, w - 1), DigitCh(n % 10))

\* chrono's %Y: four digits for 0..=9999, otherwise a sign and at least four.
FormatYear(y) ==
  IF y >= 0 /\ y <= 9999 THEN Digits(y, 4)
  ELSE IF y < 0 THEN <<"-">> \o Digits(-y, 4)
  ELSE <<"+">> \o Digits(y, 4)

\* datetime.format("%Y-%m-%dT%H:%M:%S%.3fZ") of a timestamp of whole seconds
FormatIso(dt) ==
  FormatYear(dt.date.year) \o <<"-">> \o Digits(dt.date.month, 2) \o <<"-">>
    \o Digits(dt.date.day, 2) \o <<"T">> \o Digits(dt.hour, 2) \o <<":">>
    \o Digits(dt.min, 2) \o <<":">> \o Digits(dt.sec, 2)
    \o <<".", "0", "0", "0", "Z">>

\* One epoch for both date systems.
EpochDaysSame(is_1904) == EpochDays1900

\* excel_epoch_days: the Excel epoch in days from 1970-01-01, negated
EpochDays(is_1904) == IF is_1904 THEN EpochDays1904 ELSE EpochDays1900

\* days = serial.floor() as i32 (the texts of the model stay within i32, or
\* saturate with the cast)
SerialDays(serial) ==
  IF serial.neg
  THEN (IF serial.num > 0 THEN -serial.int - 1 ELSE -serial.int)
  ELSE serial.int

\* "days - excel_epoch_days" leaves the i32 range (below i32::MIN; the epoch
\* offsets are positive, so never above i32::MAX).  A build with overflow
\* checks panics there, a build without wraps around.
SubtractOverflows(serial, is_1904) ==
  SerialDays(serial) < (-I32Max - 1) + EpochDays(is_1904)

\* pub fn excel_serial_to_iso_date(serial: f64, is_1904: bool) -> Option<String>
\* as a build without overflow checks computes it.  serial is the exact
\* decimal value ParseF64 yields; time_fraction = serial - days, and the
\* seconds of the day are (time_fraction * 86400).round(), half away from
\* zero.  Where the subtraction wraps, unix_days is days - epoch + 2^32.
excel_serial_to_iso_date(serial, is_1904) ==
  LET excel_epoch_days == EpochDays(is_1904)
      down == serial.neg /\ serial.num > 0
      days == SerialDays(serial)
      fnum == IF down THEN serial.den - serial.num ELSE serial.num
      frac_secs == (2 * fnum * SECONDS_PER_DAY + serial.den) \div (2 * serial.den)
      unix_days == IF SubtractOverflows(serial, is_1904)
                   THEN (days + I32Max) + (I32Max - excel_epoch_days) + 2
                   ELSE days - excel_epoch_days
      datetime == from_timestamp(unix_days, frac_secs)
  IN IF datetime = None THEN None ELSE Some(FormatIso(Unwrap(datetime)))


\* ------------------------------------------------------------------- styles
\* matches!(id, 14..=22 | 27..=36 | 45..=47 | 50..=58 | 67..=71 | 75..=81)
is_builtin_date(id) ==
  \/ id \in 14..22 \/ id \in 27..36 \/ id \in 45..47
  \/ id \in 50..58 \/ id \in 67..71 \/ id \in 75..81

\* A custom-format test that does not look for '#'.
is_date_code_any_hash(format_code) ==
  LET lower == to_lowercase(format_code)
  IN contains(lower, "y") \/ contains(lower, "d") \/ contains(lower, "m")

\* The custom-format test of process_xf on a format code.
is_date_code(format_code) ==
  LET lower == to_lowercase(format_code)
  IN /\ (contains(lower, "y") \/ contains(lower, "d") \/ contains(lower, "m"))
     /\ ~contains(lower, "#")

\* A reading of applyNumberFormat that is false only for the number 0.
apply_num_fmt_unless_zero(attr) ==
  IF attr = None THEN TRUE ELSE ParseUnsigned(Unwrap(attr)) # Some(0)

\* applyNumberFormat as process_xf reads it: true unless the attribute is
\* there, and then true only when its value parses to the number 1.
apply_num_fmt(attr) ==
  IF attr = None THEN TRUE ELSE ParseUnsigned(Unwrap(attr)) = Some(1)

\* The closure process_xf of parse_styles: the StyleInfo of one <xf>, from its
\* attributes (each an Option of the attribute's text) and the number formats
\* collected so far.
process_xf(attrs, num_fmts) ==
  LET num_fmt_id_attr ==
        IF attrs.numFmtId = None THEN None ELSE ParseUnsigned(Unwrap(attrs.numFmtId))
      id == Unwrap(num_fmt_id_attr)
  IN [is_date |->
        /\ apply_num_fmt(attrs.applyNumberFormat)
        /\ IsSome(num_fmt_id_attr)
        /\ IF is_builtin_date(id) THEN TRUE
           ELSE id \in DOMAIN num_fmts /\ is_date_code(num_fmts[id])]

\* BTreeMap::insert
MapInsert(m, k, v) == [x \in DOMAIN m \cup {k} |-> IF x = k THEN v ELSE m[x]]
EmptyMap == [x \in {} |-> <<>>]

\* ------------------------------------------------------------ cell resolution
\* A lookup that counts the table's entries from one.
SharedStringFromOne(strings, idx) ==
  IF idx >= 1 /\ idx <= Len(strings) THEN strings[idx] ELSE <<>>

\* shared_strings.get(idx).cloned().unwrap_or_default()
SharedStringAt(strings, idx) ==
  IF idx < Len(strings) THEN strings[idx + 1] ELSE <<>>

\* A style lookup that counts the style sequence from one.
IsDateStyleFromOne(style_idx, style_seq) ==
  /\ IsSome(style_idx)
  /\ Unwrap(style_idx) >= 1
  /\ Unwrap(style_idx) <= Len(style_seq)
  /\ style_seq[Unwrap(style_idx)].is_date

\* cell_style_idx.and_then(|idx| styles.get(idx as usize))
\*               .is_some_and(|style_info| style_info.is_date)
IsDateStyle(style_idx, style_seq) ==
  /\ IsSome(style_idx)
  /\ Unwrap(style_idx) < Len(style_seq)
  /\ style_seq[Unwrap(style_idx) + 1].is_date

\* A store position that ignores the address.
StoreColAppend(col_opt, buffer) == Len(buffer) + 1

\* A boolean text that is TRUE whenever the text holds a 1.
BoolTextAnyOne(val) ==
  IF contains(val, "1") THEN <<"T","R","U","E">> ELSE <<"F","A","L","S","E">>

\* if cell_val.trim() == "1" { "TRUE" } else { "FALSE" }
BoolText(val) ==
  IF trim(val) = <<"1">> THEN <<"T","R","U","E">> ELSE <<"F","A","L","S","E">>

\* cell_col.unwrap_or((row_vals.len() as u32) + 1)
StoreCol(col_opt, buffer) ==
  IF IsSome(col_opt) THEN Unwrap(col_opt) ELSE Len(buffer) + 1

\* The pending cell reaches the date converter (the default arm of the match
\* on cell_type, a text that parses as f64, a date style) with a serial whose
\* day subtraction overflows.
ResolveOverflows(type, val, style_idx, style_seq, epoch_1904) ==
  /\ type \notin {Some(<<"s">>), Some(<<"b">>), Some(<<"s","t","r">>),
                   Some(<<"i","n","l","i","n","e","S","t","r">>), Some(<<"e">>)}
  /\ IsSome(ParseF64(trim(val)))
  /\ IsDateStyle(style_idx, style_seq)
  /\ SubtractOverflows(Unwrap(ParseF64(trim(val))), epoch_1904)

\* The match on cell_type at a cell's end (lib.rs 437-472): the text stored
\* for the pending cell, as a build without overflow checks computes it.
ResolveCell(type, val, style_idx, strings, style_seq, epoch_1904) ==
  LET idx == ParseUnsigned(trim(val))
      num == ParseF64(trim(val))
      iso == excel_serial_to_iso_date(Unwrap(num), epoch_1904)
  IN IF type = Some(<<"s">>) THEN
       (IF IsSome(idx) THEN SharedStringAt(strings, Unwrap(idx)) ELSE <<>>)
     ELSE IF type = Some(<<"b">>) THEN BoolText(val)
     ELSE IF type \in {Some(<<"i","n","l","i","n","e","S","t","r">>),
                       Some(<<"s","t","r">>)} THEN val
     ELSE IF type = Some(<<"e">>) THEN
       <<"#","E","R","R","O","R",":">> \o val
     ELSE IF IsSome(num) /\ IsDateStyle(style_idx, style_seq) /\ IsSome(iso)
       THEN Unwrap(iso)
     ELSE val


\* ==================================================================== state
VARIABLES
  \* the family of worksheet streams the behaviours range over: the attribute
  \* texts and text fragments events are drawn from, and the model's limits
  cfg,
  \* inputs of export_sheet_xml_to_csv
  shared_strings, styles, is_1904,
  \* the records handed to wtr.write_record, in order
  out,
  \* locals of export_sheet_xml_to_csv
  num_columns, current_row_idx, row_vals,
  cell_col, cell_type, cell_style_idx, cell_val,
  \* "run" while the event loop runs, then "ok" (Ok(())) or "err" (Err)
  result,
  \* the XML reader: names of the open row / c / is elements, innermost last
  open,
  \* history: the last event handled (with its inputs), the text fragments
  \* appended since cell_val was last cleared, the cells started, the open
  \* cell's address text, whether the stream so far is a plain grid (rows
  \* numbered 1, 2, ... at the top level, every cell in a row and with a valid
  \* address), and the cells (address text and value) of the rows closed so
  \* far and of the row being read
  ev, nfrags, ncells, addr, wf, grid, cells,
  \* argument and result of a directly applied pure function
  fn_arg, fn_ret,
  \* one run of the binary (main.rs): the command line, the archive, main's
  \* position and locals, the parts opened, the lines printed and the files
  \* written
  proc

conv_vars == <<cfg, shared_strings, styles, is_1904, out, num_columns,
               current_row_idx, row_vals, cell_col, cell_type, cell_style_idx,
               cell_val, result, open>>
hist_vars == <<ev, nfrags, ncells, addr, wf, grid, cells>>
fn_vars == <<fn_arg, fn_ret, proc>>
vars == <<conv_vars, hist_vars, fn_vars>>

\* -------------------------------------------------------------- vocabulary
Row == <<"r","o","w">>
C   == <<"c">>
Is  == <<"i","s">>
TagNames == { Row, C, Is }

\* Vec::resize(n, String::new()) when the vector is shorter than n
Grow(v, n) == IF Len(v) < n THEN v \o [i \in 1..(n - Len(v)) |-> <<>>] ELSE v

\* A width that counts the trailing empty cells too.
BufferLength(v) == Len(v)

\* row_vals.iter().rposition(|c| !c.is_empty()).map_or(0, |i| i + 1)
LastNonEmpty(v) ==
  LET S == {i \in 1..Len(v) : v[i] # <<>>}
  IN IF S = {} THEN 0 ELSE CHOOSE i \in S : \A j \in S : j <= i

\* A gap loop that runs once more: while current_row_idx < next.
RECURSIVE GapLoopOnceMore(_, _, _)
GapLoopOnceMore(o, idx, next) ==
  IF idx < next THEN GapLoopOnceMore(Append(o, <<>>), idx + 1, next)
  ELSE [out |-> o, idx |-> idx]

\* The gap loop of a row start: while current_row_idx + 1 < next, write an
\* empty record and advance.  Yields the output and the index after the loop.
RECURSIVE GapLoop(_, _, _)
GapLoop(o, idx, next) ==
  IF idx + 1 < next THEN GapLoop(Append(o, <<>>), idx + 1, next)
  ELSE [out |-> o, idx |-> idx]

\* The history of a stream is kept only while the stream is a plain grid.
Keep(plain, h) == IF plain THEN h ELSE <<>>

\* r_attr of a row start: the r attribute's text parsed as u32
RowAttr(r) == IF r = None THEN None ELSE ParseUnsigned(Unwrap(r))

\* ------------------------------------------------------ converter: start state
\* The state of export_sheet_xml_to_csv before its first event, for a family
\* of streams and the tables it is called with.
ConvInit(family, strings_set, styles_set, epoch_set) ==
  /\ cfg = family
  /\ shared_strings \in strings_set
  /\ styles \in styles_set
  /\ is_1904 \in epoch_set
  /\ out = <<>>
  /\ num_columns = None
  /\ current_row_idx = 0
  /\ row_vals = <<>>
  /\ cell_col = None
  /\ cell_type = None
  /\ cell_style_idx = None
  /\ cell_val = <<>>
  /\ result = "run"
  /\ open = <<>>
  /\ ev = [kind |-> "none"]
  /\ nfrags = 0
  /\ ncells = 0
  /\ addr = None
  /\ wf = TRUE
  /\ grid = <<>>
  /\ cells = <<>>
  /\ fn_arg = None
  /\ fn_ret = None
  /\ proc = None

\* ---------------------------------------------------------- converter: events
\* Event::Start of an element matching "row"; r is the text of its r
\* attribute (None when it has none).
RowStart(name, r) ==
  LET r_attr == RowAttr(r)
      next == IF IsSome(r_attr) THEN Unwrap(r_attr) ELSE current_row_idx + 1
      gap == GapLoop(out, current_row_idx, next)
  IN /\ result = "run"
     /\ tag_eq_ignore_case(name, Row)
     /\ out' = gap.out
     /\ current_row_idx' = next
     /\ row_vals' = <<>>
     /\ open' = Append(open, name)
     /\ ev' = [kind |-> "RowStart", r |-> r_attr]
     /\ wf' = (wf /\ open = <<>> /\ r_attr = Some(Len(grid) + 1))
     /\ cells' = <<>>
     /\ grid' = Keep(wf', grid)
     /\ UNCHANGED <<addr, cfg, shared_strings, styles, is_1904, num_columns,
                    cell_col, cell_type, cell_style_idx, cell_val, result,
                    nfrags, ncells, fn_vars>>

\* Event::Start of an element matching "c" (and not "row"); r, t and s are the
\* texts of its attributes.  When the column letters of r leave the u32 range
\* a build with overflow checks panics in col_to_index, another build keeps
\* the wrapped column.
CellStart(name, r, t, s) ==
  LET r_attr == IF r = None THEN None ELSE parse_cell_ref(Unwrap(r))
      overflows == r # None /\ CellRefOverflows(Unwrap(r))
  IN /\ result = "run"
     /\ ~tag_eq_ignore_case(name, Row)
     /\ tag_eq_ignore_case(name, C)
     /\ \E overflow_checks \in BOOLEAN :
          IF overflow_checks /\ overflows
          THEN /\ result' = "panic"
               /\ ev' = [kind |-> "Panic", at |-> "col_to_index"]
               /\ UNCHANGED <<cell_col, cell_type, cell_val, cell_style_idx,
                              open, nfrags, ncells, wf, addr, grid, cells>>
          ELSE /\ cell_col' = IF IsSome(r_attr) THEN Some(Unwrap(r_attr).col) ELSE None
               /\ cell_type' = t
               /\ cell_val' = <<>>
               /\ cell_style_idx' = IF s = None THEN None ELSE ParseUnsigned(Unwrap(s))
               /\ open' = Append(open, name)
               /\ ev' = [kind |-> "CellStart"]
               /\ nfrags' = 0
               /\ ncells' = ncells + 1
               /\ wf' = (wf /\ open # <<>> /\ open[Len(open)] = Row /\ IsSome(r_attr))
               /\ addr' = Keep(wf', r)
               /\ grid' = Keep(wf', grid)
               /\ cells' = Keep(wf', cells)
               /\ UNCHANGED result
     /\ UNCHANGED <<cfg, shared_strings, styles, is_1904, out, num_columns,
                    current_row_idx, row_vals, fn_vars>>

\* Event::Start of an element matching "is" (and neither "row" nor "c").
IsStart(name) ==
  /\ result = "run"
  /\ ~tag_eq_ignore_case(name, Row)
  /\ ~tag_eq_ignore_case(name, C)
  /\ tag_eq_ignore_case(name, Is)
  /\ cell_val' = <<>>
  /\ open' = Append(open, name)
  /\ ev' = [kind |-> "IsStart"]
  /\ nfrags' = 0
  /\ UNCHANGED <<addr, cfg, shared_strings, styles, is_1904, out, num_columns,
                 current_row_idx, row_vals, cell_col, cell_type, cell_style_idx,
                 result, ncells, wf, grid, cells, fn_vars>>

\* Event::End of an element matching "c": the pending cell is resolved and
\* stored at column - 1 of the row buffer.  With column 0 the index
\* (col as usize) - 1 is no position of the buffer and the store panics.
CellEnd ==
  LET col == StoreCol(cell_col, row_vals)
      grown == Grow(row_vals, col)
      v == ResolveCell(cell_type, cell_val, cell_style_idx, shared_strings,
                       styles, is_1904)
      overflows == ResolveOverflows(cell_type, cell_val, cell_style_idx, styles,
                                    is_1904)
  IN /\ result = "run"
     /\ open # <<>>
     /\ tag_eq_ignore_case(open[Len(open)], C)
     /\ \E overflow_checks \in BOOLEAN :
          IF (overflow_checks /\ overflows) \/ col = 0
          THEN /\ result' = "panic"
               /\ ev' = [kind |-> "Panic",
                          at |-> IF overflow_checks /\ overflows
                                 THEN "excel_serial_to_iso_date" ELSE "row_vals"]
               /\ UNCHANGED <<open, row_vals, cell_col, cell_type, cell_val,
                              cell_style_idx, nfrags, addr, cells>>
          ELSE /\ open' = SubSeq(open, 1, Len(open) - 1)
               /\ row_vals' = [grown EXCEPT ![col] = v]
               /\ cell_col' = None
               /\ cell_type' = None
               /\ cell_val' = <<>>
               /\ cell_style_idx' = None
               /\ ev' = [kind |-> "CellEnd", type |-> cell_type,
                          text |-> cell_val, style |-> cell_style_idx]
               /\ nfrags' = 0
               /\ addr' = None
               /\ cells' = Keep(wf, Append(cells, [addr |-> addr, val |-> v]))
               /\ UNCHANGED result
     /\ UNCHANGED <<cfg, shared_strings, styles, is_1904, out, num_columns,
                    current_row_idx, ncells, wf, grid, fn_vars>>

\* A row end that writes the padded row buffer and leaves it filled.
RowEndKeepingBuffer ==
  LET n == IF num_columns = None THEN LastNonEmpty(row_vals) ELSE Unwrap(num_columns)
      padded == Grow(row_vals, n)
  IN /\ result = "run"
     /\ open # <<>>
     /\ ~tag_eq_ignore_case(open[Len(open)], C)
     /\ tag_eq_ignore_case(open[Len(open)], Row)
     /\ open' = SubSeq(open, 1, Len(open) - 1)
     /\ num_columns' = Some(n)
     /\ out' = Append(out, padded)
     /\ row_vals' = padded
     /\ ev' = [kind |-> "RowEnd"]
     /\ grid' = Keep(wf, Append(grid, cells))
     /\ cells' = <<>>
     /\ UNCHANGED <<addr, cfg, shared_strings, styles, is_1904, current_row_idx,
                    cell_col, cell_type, cell_style_idx, cell_val, result,
                    nfrags, ncells, wf, fn_vars>>

\* Event::End of an element matching "row" (and not "c"): the row buffer is
\* padded to num_columns, written and cleared.
RowEnd ==
  LET n == IF num_columns = None THEN LastNonEmpty(row_vals) ELSE Unwrap(num_columns)
      padded == Grow(row_vals, n)
  IN /\ result = "run"
     /\ open # <<>>
     /\ ~tag_eq_ignore_case(open[Len(open)], C)
     /\ tag_eq_ignore_case(open[Len(open)], Row)
     /\ open' = SubSeq(open, 1, Len(open) - 1)
     /\ num_columns' = Some(n)
     /\ out' = Append(out, padded)
     /\ row_vals' = <<>>
     /\ ev' = [kind |-> "RowEnd"]
     /\ grid' = Keep(wf, Append(grid, cells))
     /\ cells' = <<>>
     /\ UNCHANGED <<addr, cfg, shared_strings, styles, is_1904, current_row_idx,
                    cell_col, cell_type, cell_style_idx, cell_val, result,
                    nfrags, ncells, wf, fn_vars>>

\* Event::End of any other element: nothing but the reader's nesting changes.
OtherEnd ==
  /\ result = "run"
  /\ open # <<>>
  /\ ~tag_eq_ignore_case(open[Len(open)], C)
  /\ ~tag_eq_ignore_case(open[Len(open)], Row)
  /\ open' = SubSeq(open, 1, Len(open) - 1)
  /\ ev' = [kind |-> "OtherEnd"]
  /\ UNCHANGED <<addr, cfg, shared_strings, styles, is_1904, out, num_columns,
                 current_row_idx, row_vals, cell_col, cell_type, cell_style_idx,
                 cell_val, result, nfrags, ncells, wf, grid, cells, fn_vars>>

\* A text handler that puts the new text in front of the accumulated text.
TextPrepending(txt) ==
  /\ result = "run"
  /\ txt # <<>>
  /\ cell_val' = txt \o cell_val
  /\ nfrags' = nfrags + 1
  /\ ev' = [kind |-> "Text"]
  /\ UNCHANGED <<addr, cfg, shared_strings, styles, is_1904, out, num_columns,
                 current_row_idx, row_vals, cell_col, cell_type, cell_style_idx,
                 result, open, ncells, wf, grid, cells, fn_vars>>

\* Event::Text: the unescaped text, when not empty, is appended to cell_val,
\* whatever element is open.
Text(txt) ==
  /\ result = "run"
  /\ txt # <<>>
  /\ cell_val' = cell_val \o txt
  /\ nfrags' = nfrags + 1
  /\ ev' = [kind |-> "Text"]
  /\ UNCHANGED <<addr, cfg, shared_strings, styles, is_1904, out, num_columns,
                 current_row_idx, row_vals, cell_col, cell_type, cell_style_idx,
                 result, open, ncells, wf, grid, cells, fn_vars>>

\* Any event the loop ignores: Event::Empty (a self-closing element, also a
\* self-closing row or c), a start of "t", "v" or another element, a comment,
\* a declaration.  Such elements are not kept in open.
OtherEvent ==
  /\ result = "run"
  /\ UNCHANGED vars

\* Event::Eof: a row buffer that is not empty is flushed, then Ok(()).  The
\* reader reports Eof also while elements are open.
Eof ==
  /\ result = "run"
  /\ out' = IF row_vals # <<>> THEN Append(out, row_vals) ELSE out
  /\ result' = "ok"
  /\ ev' = [kind |-> "Eof"]
  /\ wf' = (wf /\ open = <<>>)
  /\ grid' = Keep(wf', grid)
  /\ cells' = Keep(wf', cells)
  /\ UNCHANGED <<addr, cfg, shared_strings, styles, is_1904, num_columns,
                 current_row_idx, row_vals, cell_col, cell_type, cell_style_idx,
                 cell_val, open, nfrags, ncells, fn_vars>>

\* An error return that first flushes the row buffer, as the end of input does.
XmlErrorFlushing ==
  /\ result = "run"
  /\ out' = IF row_vals # <<>> THEN Append(out, row_vals) ELSE out
  /\ result' = "err"
  /\ ev' = [kind |-> "XmlError"]
  /\ UNCHANGED <<addr, cfg, shared_strings, styles, is_1904, num_columns,
                 current_row_idx, row_vals, cell_col, cell_type, cell_style_idx,
                 cell_val, open, nfrags, ncells, wf, grid, cells, fn_vars>>

\* Err(e) from the reader (or from unescape): the function returns the error.
XmlError ==
  /\ result = "run"
  /\ result' = "err"
  /\ ev' = [kind |-> "XmlError"]
  /\ UNCHANGED <<addr, cfg, shared_strings, styles, is_1904, out, num_columns,
                 current_row_idx, row_vals, cell_col, cell_type, cell_style_idx,
                 cell_val, open, nfrags, ncells, wf, grid, cells, fn_vars>>

\* ------------------------------------------------------ the streams of events
\* The streams of the model nest their elements as a worksheet part does: a
\* row opens at the top level, a cell at the top level or in a row, an
\* inline-string container in a cell.
MayOpen(name) ==
  LET top == IF open = <<>> THEN <<>> ELSE open[Len(open)]
  IN \/ name = Row /\ open = <<>>
     \/ name = C /\ top \in {<<>>, Row}
     \/ name = Is /\ top = C

\* A row start is fed while its gap records and its own record fit the limit.
RowStartEv ==
  \E name \in TagNames, r \in cfg.row_attrs :
    /\ MayOpen(name)
    /\ (IF IsSome(RowAttr(r)) /\ Unwrap(RowAttr(r)) > current_row_idx
        THEN Len(out) + Unwrap(RowAttr(r)) - current_row_idx
        ELSE Len(out) + 1) <= cfg.max_records
    /\ RowStart(name, r)

CellStartEv ==
  \E name \in TagNames, r \in cfg.addrs, t \in cfg.types, s \in cfg.style_idx :
    /\ MayOpen(name)
    /\ ncells < cfg.max_cells
    /\ CellStart(name, r, t, s)

IsStartEv == \E name \in TagNames : MayOpen(name) /\ IsStart(name)

RowEndEv == Len(out) < cfg.max_records /\ RowEnd

TextEv ==
  \E txt \in cfg.frags :
    /\ nfrags < cfg.max_frags
    /\ cfg.text_anywhere \/ (\E i \in 1..Len(open) : open[i] = C)
    /\ Text(txt)

Next ==
  \/ RowStartEv
  \/ CellStartEv
  \/ IsStartEv
  \/ CellEnd
  \/ RowEndEv
  \/ OtherEnd
  \/ TextEv
  \/ OtherEvent
  \/ Eof
  \/ XmlError

\* ------------------------------------------------- Spec: worksheets as grids
\* Streams of a few rows of a few cells: numbered and unnumbered rows, cells
\* with and without an address, numeric and shared-string cells with at most
\* one text fragment each.
GridFamily ==
  [ row_attrs |-> { None, Some(<<"1">>), Some(<<"2">>), Some(<<"3">>), Some(<<"x">>) },
    addrs     |-> { None, Some(<<"A","1">>), Some(<<"B","1">>), Some(<<"1">>) },
    types     |-> { None, Some(<<"s">>) },
    style_idx |-> { None },
    frags     |-> { <<"0">> },
    max_records |-> MaxRecords,
    max_cells   |-> MaxCells,
    max_frags   |-> 1,
    text_anywhere |-> TRUE ]

Init == ConvInit(GridFamily, { << <<"h">>, <<"w">> >> }, { <<>> }, { FALSE })

Spec == Init /\ [][Next]_vars

\* ------------------------------------------- SpecRows: row numbers and gaps
\* Streams of rows with declared, missing, unparsable, repeated and skipped
\* row numbers, each row with at most an untyped cell or two.
RowsFamily ==
  [ row_attrs |-> { None, Some(<<"0">>), Some(<<"1">>), Some(<<"2">>),
                    Some(<<"3">>), Some(<<"5">>), Some(<<"x">>) },
    addrs     |-> { None },
    types     |-> { None },
    style_idx |-> { None },
    frags     |-> { <<"0">> },
    max_records |-> MaxRowRecords,
    max_cells   |-> MaxCells,
    max_frags   |-> 1,
    text_anywhere |-> TRUE ]

InitRows == ConvInit(RowsFamily, { <<>> }, { <<>> }, { FALSE })

SpecRows == InitRows /\ [][Next]_vars

\* --------------------------------------------- SpecCell: one cell, any kind
\* Streams of a single cell, alone or in a row, with text only inside the
\* cell: every type tag, present,
\* absent, out-of-range and unparsable style indices, and texts put together
\* from up to MaxFrags fragments (blanks, digits, a sign, a closing fraction,
\* a serial beyond the last representable day, a serial whose day
\* subtraction leaves the i32 range).
CellFamily ==
  [ row_attrs |-> { None },
    addrs     |-> { None },
    types     |-> { None, Some(<<"n">>), Some(<<"s">>), Some(<<"b">>), Some(<<"e">>),
                    Some(<<"s","t","r">>),
                    Some(<<"i","n","l","i","n","e","S","t","r">>) },
    style_idx |-> { None, Some(<<"0">>), Some(<<"1">>), Some(<<"2">>), Some(<<"x">>) },
    frags     |-> { <<" ">>, <<"0">>, <<"1">>, <<"6","1">>, <<".","5"," ">>, <<"-">>,
                    <<"9","6","0","0","0","0","0","0">>,
                    <<"-","2","1","4","7","4","7","0","0","0","0">> },
    max_records |-> 1,
    max_cells   |-> 1,
    max_frags   |-> MaxFrags,
    text_anywhere |-> FALSE ]

InitCell ==
  ConvInit(CellFamily, { << <<"h">>, <<"w">> >> },
           { <<[is_date |-> TRUE], [is_date |-> FALSE]>> }, BOOLEAN)

SpecCell == InitCell /\ [][Next]_vars

\* ------------------------------------------------- functions called directly
\* The converter at rest, for the specifications that call one function.
Idle ==
  /\ cfg = [ row_attrs |-> {}, addrs |-> {}, types |-> {}, style_idx |-> {},
             frags |-> {}, max_records |-> 0, max_cells |-> 0, max_frags |-> 0,
             text_anywhere |-> FALSE ]
  /\ shared_strings = <<>>
  /\ styles = <<>>
  /\ is_1904 = FALSE
  /\ out = <<>>
  /\ num_columns = None
  /\ current_row_idx = 0
  /\ row_vals = <<>>
  /\ cell_col = None
  /\ cell_type = None
  /\ cell_style_idx = None
  /\ cell_val = <<>>
  /\ result = "idle"
  /\ open = <<>>
  /\ ev = [kind |-> "none"]
  /\ nfrags = 0
  /\ ncells = 0
  /\ addr = None
  /\ wf = TRUE
  /\ grid = <<>>
  /\ cells = <<>>

\* ------------------------------------------------ SpecCol: column letters
\* col_to_index on every string of at most MaxColLen characters, each an
\* uppercase letter, a lowercase letter or a digit.
ColAlphabet == UpperSet \cup {"a", "1"}

ColStrings == UNION { [1..n -> ColAlphabet] : n \in 0..MaxColLen }

InitCol ==
  /\ Idle
  /\ proc = None
  /\ fn_arg \in { Some([col |-> c]) : c \in ColStrings }
  /\ fn_ret = None

CallColToIndex ==
  /\ result = "idle"
  /\ fn_ret = None
  /\ fn_ret' = Some(col_to_index(Unwrap(fn_arg).col))
  /\ UNCHANGED <<fn_arg, proc, conv_vars, hist_vars>>

NextCol == CallColToIndex

SpecCol == InitCol /\ [][NextCol]_vars

\* ------------------------------------------------ SpecDate: day serials
\* excel_serial_to_iso_date on whole-number serials around the epochs, the
\* leap days of 1900, 2000 and 2100, the sample date, the year 10000, both
\* ends of the representable range and the least serials of the i32 range,
\* under both epochs.
SerialAnchors ==
  { 0, 1462, 36526, 42735, 44197, 73110, 2958465,
    MaxUnixDays + EpochDays1900, MaxUnixDays + EpochDays1904,
    MinUnixDays + EpochDays1900, MinUnixDays + EpochDays1904,
    (-I32Max - 1) + EpochDays1900, (-I32Max - 1) + EpochDays1904 }

Serials ==
  UNION { (a - SerialWindow)..(a + SerialWindow) : a \in SerialAnchors }

InitDate ==
  /\ Idle
  /\ proc = None
  /\ fn_arg \in { Some([serial |-> d, is_1904 |-> e]) :
                     d \in Serials, e \in BOOLEAN }
  /\ fn_ret = None

CallSerialToIso ==
  LET serial == WholeF64(Unwrap(fn_arg).serial)
      rest == <<cfg, shared_strings, styles, is_1904, out, num_columns,
                current_row_idx, row_vals, cell_col, cell_type, cell_style_idx,
                cell_val, open>>
  IN /\ result = "idle"
     /\ fn_ret = None
     /\ \E overflow_checks \in BOOLEAN :
          IF overflow_checks /\ SubtractOverflows(serial, Unwrap(fn_arg).is_1904)
          THEN result' = "panic" /\ UNCHANGED fn_ret
          ELSE /\ fn_ret' = Some(excel_serial_to_iso_date(serial,
                                                         Unwrap(fn_arg).is_1904))
               /\ UNCHANGED result
     /\ UNCHANGED <<fn_arg, proc, rest, hist_vars>>

NextDate == CallSerialToIso

SpecDate == InitDate /\ [][NextDate]_vars

\* ------------------------------------------------ SpecXf: one style record
\* parse_styles on a styles part with one <xf> in cellXfs, after the number
\* formats of a table have been read, and then a numeric cell with style
\* index 0 resolved against the resulting style sequence.
XfIds ==
  { None, Some(<<"x">>), Some(<<"1","6","4">>), Some(<<"1","6","5">>) }
    \cup { Some(Digits(n, 1)) : n \in 0..MaxFmtId }

XfApply ==
  { None, Some(<<"1">>), Some(<<"0">>), Some(<<"2">>),
    Some(<<"t","r","u","e">>), Some(<<"f","a","l","s","e">>) }

XfFormats ==
  { EmptyMap,
    MapInsert(EmptyMap, 164, <<"y","y","y","y","-","m","m">>),
    MapInsert(EmptyMap, 164, <<"0",".","0">>),
    MapInsert(EmptyMap, 164, <<"#","m">>),
    MapInsert(EmptyMap, 164, <<"D","D">>),
    MapInsert(MapInsert(EmptyMap, 5, <<"h",":","m","m">>), 14, <<"0">>) }

XfTexts == { <<"6","1">>, <<"x">> }

InitXf ==
  /\ Idle
  /\ proc = None
  /\ fn_arg \in { Some([attrs |-> [numFmtId |-> i, applyNumberFormat |-> a],
                         num_fmts |-> f, text |-> t]) :
                     i \in XfIds, a \in XfApply, f \in XfFormats, t \in XfTexts }
  /\ fn_ret = None

CallProcessXf ==
  /\ result = "idle"
  /\ fn_ret = None
  /\ fn_ret' = Some([styles |->
                       <<process_xf(Unwrap(fn_arg).attrs, Unwrap(fn_arg).num_fmts)>>,
                     cell |-> None])
  /\ UNCHANGED <<fn_arg, proc, conv_vars, hist_vars>>

CallResolveCell ==
  /\ result = "idle"
  /\ fn_ret # None
  /\ Unwrap(fn_ret).cell = None
  /\ fn_ret' = Some([styles |-> Unwrap(fn_ret).styles,
                     cell |-> Some(ResolveCell(None, Unwrap(fn_arg).text, Some(0),
                                               <<>>, Unwrap(fn_ret).styles,
                                               FALSE))])
  /\ UNCHANGED <<fn_arg, proc, conv_vars, hist_vars>>

NextXf == CallProcessXf \/ CallResolveCell

SpecXf == InitXf /\ [][NextXf]_vars

\* ===================================================================== claims
\* ---------------------------------------------------------------------- C10
\* The column number of index n >= 1 in bijective base 26, as letters.
RECURSIVE IndexToCol(_)
IndexToCol(n) ==
  IF n = 0 THEN <<>>
  ELSE Append(IndexToCol((n - 1) \div 26), UpperSeq[((n - 1) % 26) + 1])

LetterValue(c) == CHOOSE k \in 1..26 : UpperSeq[k] = c

IsUpperString(s) == \A i \in 1..Len(s) : s[i] \in UpperSet

\* C10: on a string of uppercase letters col_to_index is bijective base 26
\* with A=1..Z=26: the value of s followed by c is 26 times the value of s plus
\* the value of c; A, Z and AA give 1, 26 and 27; the value of a non-empty
\* string is positive and encodes back to the string, so distinct strings
\* have distinct values.
C10_ColToIndexBijective ==
  (fn_ret # None /\ "col" \in DOMAIN Unwrap(fn_arg)
     /\ IsUpperString(Unwrap(fn_arg).col)) =>
    LET s == Unwrap(fn_arg).col
        v == Unwrap(fn_ret)
    IN /\ s = <<>> => v = 0
       /\ s # <<>> =>
            /\ v = 26 * col_to_index(SubSeq(s, 1, Len(s) - 1))
                     + LetterValue(s[Len(s)])
            /\ v >= 1
            /\ IndexToCol(v) = s
       /\ s = <<"A">> => v = 1
       /\ s = <<"Z">> => v = 26
       /\ s = <<"A","A">> => v = 27

C10_Witness ==
  /\ fn_arg = Some([col |-> <<"A","A">>])
  /\ fn_ret = Some(27)

\* ----------------------------------------------------------------------- C6
LeapYear(y) == y % 4 = 0 /\ (y % 100 # 0 \/ y % 400 = 0)

\* Leap years among the years 1 .. y (continued below year 1).
LeapsThrough(y) == y \div 4 - y \div 100 + y \div 400

CumDays == <<0, 31, 59, 90, 120, 151, 181, 212, 243, 273, 304, 334>>

MonthLen(y, m) ==
  IF m = 2 THEN (IF LeapYear(y) THEN 29 ELSE 28)
  ELSE IF m \in {4, 6, 9, 11} THEN 30 ELSE 31

\* Days from 1970-01-01 to the day d of month m of year y, by counting years,
\* months and days in the proleptic Gregorian calendar.
DaysFromCivil(y, m, d) ==
  365 * (y - 1970) + LeapsThrough(y - 1) - LeapsThrough(1969)
    + CumDays[m] + (IF m > 2 /\ LeapYear(y) THEN 1 ELSE 0) + d - 1

\* A timestamp text read back: sign and digits of the year up to the first
\* dash after the first character, then mm-dd and the time part.
ReadIso(text) ==
  LET signed == text[1] \in {"+", "-"}
      dash   == CHOOSE i \in 2..Len(text) :
                  text[i] = "-" /\ \A j \in 2..(i - 1) : text[j] # "-"
      ydig   == SubSeq(text, IF signed THEN 2 ELSE 1, dash - 1)
      yabs   == DigitsValue(ydig, 0)
  IN [ year  |-> IF text[1] = "-" THEN -yabs ELSE yabs,
       ylen  |-> Len(ydig),
       signed |-> signed,
       month |-> DigitsValue(SubSeq(text, dash + 1, dash + 2), 0),
       mdash |-> text[dash + 3],
       day   |-> DigitsValue(SubSeq(text, dash + 4, dash + 5), 0),
       time  |-> SubSeq(text, dash + 6, Len(text)) ]

\* C6: for a whole-number serial d in the representable range the converter
\* returns 00:00:00.000Z of the calendar day that is d - 25569 (1900 epoch)
\* or d - 24107 (1904 epoch) days after 1970-01-01; serial 44197 gives
\* 2021-01-01T00:00:00.000Z; the 1904 result for d is the 1900 result for
\* d + 1462.
C6_WholeSerialIsMidnight ==
  ("serial" \in DOMAIN Unwrap(fn_arg) /\ (fn_ret # None \/ result = "panic")) =>
    LET d   == Unwrap(fn_arg).serial
        e   == Unwrap(fn_arg).is_1904
        off == IF e THEN 24107 ELSE 25569
    IN (d >= MinUnixDays + off /\ d <= MaxUnixDays + off) =>
         /\ result # "panic"
         /\ IsSome(Unwrap(fn_ret))
         /\ LET t == ReadIso(Unwrap(Unwrap(fn_ret)))
            IN /\ t.month \in 1..12
               /\ t.day \in 1..MonthLen(t.year, t.month)
               /\ DaysFromCivil(t.year, t.month, t.day) = d - off
               /\ t.ylen >= 4
               /\ t.signed <=> (t.year < 0 \/ t.year > 9999)
               /\ t.mdash = "-"
               /\ t.time = <<"T","0","0",":","0","0",":","0","0",
                             ".","0","0","0","Z">>
         /\ (d = 44197 /\ ~e) =>
              Unwrap(fn_ret) =
                Some(<<"2","0","2","1","-","0","1","-","0","1","T","0","0",
                       ":","0","0",":","0","0",".","0","0","0","Z">>)
         /\ e => Unwrap(fn_ret) =
                   excel_serial_to_iso_date(WholeF64(d + 1462), FALSE)

C6_Witness ==
  /\ fn_arg = Some([serial |-> 42735, is_1904 |-> TRUE])
  /\ fn_ret = Some(Some(<<"2","0","2","1","-","0","1","-","0","1","T","0","0",
                          ":","0","0",":","0","0",".","0","0","0","Z">>))

\* ------------------------------------------------------------------ C7 - C9
\* The style record judged, the number formats known, and the outcome.
XfCalled == fn_ret # None /\ "attrs" \in DOMAIN Unwrap(fn_arg)

XfAttrs == Unwrap(fn_arg).attrs

XfIsDate == Unwrap(fn_ret).styles[1].is_date

ExplicitFalse == { Some(<<"0">>), Some(<<"f","a","l","s","e">>) }

\* The format id of the record as a number, where its text is one.
XfId == ParseUnsigned(Unwrap(XfAttrs.numFmtId))

InBuiltinRanges(id) ==
  id \in (14..22) \cup (27..36) \cup (45..47) \cup (50..58) \cup (67..71)
         \cup (75..81)

\* A format code with a y, m or d in either case and no '#'.
DateLikeCode(code) ==
  /\ \E i \in 1..Len(code) : code[i] \in {"y", "Y", "m", "M", "d", "D"}
  /\ \A i \in 1..Len(code) : code[i] # "#"

\* The record's format id is a date format: built in, or a date-like custom
\* format of the table.
XfIdIsDateFormat ==
  /\ XfAttrs.numFmtId # None
  /\ IsSome(XfId)
  /\ \/ InBuiltinRanges(Unwrap(XfId))
     \/ /\ Unwrap(XfId) \in DOMAIN Unwrap(fn_arg).num_fmts
        /\ DateLikeCode(Unwrap(fn_arg).num_fmts[Unwrap(XfId)])

\* C7: a style record whose apply-formatting attribute is explicitly false
\* ("0" or "false") gets is_date = false whatever its format id, and a
\* numeric cell under that style keeps its raw text.
C7_ExplicitFalseNeverDate ==
  (XfCalled /\ XfAttrs.applyNumberFormat \in ExplicitFalse) =>
    /\ ~XfIsDate
    /\ Unwrap(fn_ret).cell # None =>
         Unwrap(Unwrap(fn_ret).cell) = Unwrap(fn_arg).text

C7_Witness ==
  /\ XfCalled
  /\ XfAttrs = [numFmtId |-> Some(<<"1","4">>), applyNumberFormat |-> Some(<<"0">>)]
  /\ Unwrap(fn_arg).text = <<"6","1">>
  /\ Unwrap(fn_ret).cell = Some(<<"6","1">>)

\* C8: apply-formatting is off only for an explicit false or zero; with the
\* attribute absent or holding any other value (1, true, ...) a record whose
\* format id is a date format is flagged as a date.
C8_OnlyExplicitFalseDisables ==
  (XfCalled /\ XfAttrs.applyNumberFormat \notin ExplicitFalse
     /\ XfIdIsDateFormat) => XfIsDate

\* C9: with the apply-formatting flag true and a format id present, is_date
\* holds exactly when the id is in a built-in range or, outside them, names a
\* custom format code with y, m or d (in either case) and no '#'; a record
\* without a format id is never a date.
C9_DateFlagRule ==
  XfCalled =>
    /\ (apply_num_fmt(XfAttrs.applyNumberFormat) /\ XfAttrs.numFmtId # None
          /\ IsSome(XfId)) => (XfIsDate <=> XfIdIsDateFormat)
    /\ (XfAttrs.numFmtId = None \/ XfId = None) => ~XfIsDate

C9_Witness ==
  /\ XfCalled
  /\ XfAttrs = [numFmtId |-> Some(<<"1","6","4">>), applyNumberFormat |-> None]
  /\ Unwrap(fn_arg).num_fmts = MapInsert(EmptyMap, 164, <<"D","D">>)
  /\ XfIsDate

\* ----------------------------------------------------------------------- C1
\* The value of a string of uppercase letters in bijective base 26.
RECURSIVE Base26(_)
Base26(s) ==
  IF s = <<>> THEN 0
  ELSE 26 * Base26(SubSeq(s, 1, Len(s) - 1)) + LetterValue(s[Len(s)])

\* The column an address text names: the value of its leading letters.
ColumnOf(a) ==
  LET text == Unwrap(a)
      n == Cardinality({i \in 1..Len(text) :
                          \A j \in 1..i : text[j] \in UpperSet \cup LowerSet})
  IN Base26([i \in 1..n |-> to_ascii_uppercase(text[i])])

IsRowStartStep == ev'.kind = "RowStart" /\ Len(open') = Len(open) + 1

\* C2: a row start declaring a number n > current_row_idx + 1 appends exactly
\* n - current_row_idx - 1 empty records to the output written so far and
\* sets current_row_idx to n; the record of row n is appended after them, at
\* the row's end.
C2_GapRows ==
  [][ /\ (IsRowStartStep /\ IsSome(ev'.r)
            /\ Unwrap(ev'.r) > current_row_idx + 1) =>
          LET n == Unwrap(ev'.r)
              k == n - current_row_idx - 1
          IN /\ Len(out') = Len(out) + k
             /\ SubSeq(out', 1, Len(out)) = out
             /\ \A i \in (Len(out) + 1)..Len(out') : out'[i] = <<>>
             /\ current_row_idx' = n
      /\ (ev'.kind = "RowEnd" /\ Len(open') = Len(open) - 1) =>
          /\ Len(out') = Len(out) + 1
          /\ SubSeq(out', 1, Len(out)) = out
    ]_vars

C2_Witness ==
  /\ ev = [kind |-> "RowStart", r |-> Some(5)]
  /\ current_row_idx = 5
  /\ out = << <<>>, << <<"0">> >>, <<>>, <<>> >>

\* ------------------------------------------------------------------ C3 - C5
\* A cell has just ended; in the streams of SpecCell a cell carries no
\* address, so its value is the last of the row buffer.
CellEnded == ev.kind = "CellEnd"

Stored == row_vals[Len(row_vals)]

\* A text without the blanks around it.
Core(text) ==
  LET S == {i \in 1..Len(text) : text[i] # " "}
      lo == CHOOSE i \in S : \A j \in S : i <= j
      hi == CHOOSE i \in S : \A j \in S : j <= i
  IN IF S = {} THEN <<>> ELSE SubSeq(text, lo, hi)

RECURSIVE Base10(_)
Base10(s) ==
  IF s = <<>> THEN 0
  ELSE 10 * Base10(SubSeq(s, 1, Len(s) - 1)) + DigitVal(s[Len(s)])

\* The digits of an index text: the text without blanks around it and
\* without a leading plus sign.
IndexDigits(text) ==
  LET c == Core(text)
  IN IF c # <<>> /\ c[1] = "+" THEN SubSeq(c, 2, Len(c)) ELSE c

IsIndexText(text) ==
  /\ IndexDigits(text) # <<>>
  /\ \A i \in 1..Len(IndexDigits(text)) : IndexDigits(text)[i] \in DigitSet

\* An index text names an entry of a table of n strings.
IndexWithin(text, n) ==
  LET d == IndexDigits(text)
      lead == Cardinality({i \in 1..Len(d) : \A j \in 1..i : d[j] = "0"})
      sig == SubSeq(d, lead + 1, Len(d))
  IN IsIndexText(text) /\ Len(sig) <= 9 /\ Base10(sig) < n

\* C3: a cell of type s resolves to the shared string at the index its text
\* gives when that index is within the table, and to the empty string when
\* the index is out of range or the text is no index; the conversion goes on.
C3_SharedStringLookup ==
  (CellEnded /\ ev.type = Some(<<"s">>)) =>
    /\ result = "run"
    /\ row_vals # <<>>
    /\ Stored = IF IndexWithin(ev.text, Len(shared_strings))
                THEN shared_strings[Base10(IndexDigits(ev.text)) + 1]
                ELSE <<>>

C3_Witness ==
  /\ CellEnded
  /\ ev.type = Some(<<"s">>)
  /\ ev.text = <<"0", "1">>
  /\ row_vals = << <<"w">> >>

\* ----------------------------------------------------------------------- C4
TrueText == <<"T","R","U","E">>

FalseText == <<"F","A","L","S","E">>

\* C4 as stated: a cell of type b resolves to TRUE when its accumulated raw
\* text is exactly "1" and to FALSE for every other raw text.
C4_BoolExactlyOne ==
  (CellEnded /\ ev.type = Some(<<"b">>)) =>
    Stored = IF ev.text = <<"1">> THEN TrueText ELSE FalseText

\* C4, amended: a cell of type b resolves to TRUE when its accumulated text
\* without the whitespace around it is "1", and to FALSE otherwise.
C4_BoolTrimmedOne ==
  (CellEnded /\ ev.type = Some(<<"b">>)) =>
    Stored = IF Core(ev.text) = <<"1">> THEN TrueText ELSE FalseText

C4_Witness ==
  /\ CellEnded
  /\ ev.type = Some(<<"b">>)
  /\ ev.text = <<" ", "1">>
  /\ row_vals = << TrueText >>

\* ----------------------------------------------------------------------- C5
\* The cell that ended is numeric or untyped and its text is a number.
NumberCellEnded ==
  /\ CellEnded
  /\ ev.type \in {None, Some(<<"n">>)}
  /\ IsSome(ParseF64(Core(ev.text)))

\* Its style index is present, within the style sequence, and names a style
\* flagged as a date.
DateFlagged ==
  /\ IsSome(ev.style)
  /\ \E i \in 1..Len(styles) : i - 1 = Unwrap(ev.style) /\ styles[i].is_date

\* What the date converter returns for the cell's number.
Converted == excel_serial_to_iso_date(Unwrap(ParseF64(Core(ev.text))), is_1904)

AbortedOnDayOverflow ==
  /\ cell_type \in {None, Some(<<"n">>)}
  /\ IsSome(ParseF64(Core(cell_val)))
  /\ IsSome(cell_style_idx)
  /\ \E i \in 1..Len(styles) :
       i - 1 = Unwrap(cell_style_idx) /\ styles[i].is_date
  /\ SerialDays(Unwrap(ParseF64(Core(cell_val)))) + 2147483647 + 1
       < (IF is_1904 THEN 24107 ELSE 25569)

AddrFamily ==
  [ row_attrs |-> { None },
    addrs     |-> { None, Some(<<"A","1">>), Some(<<"C","1">>), Some(<<"C">>),
                    Some(<<"M","W","L","Q","K","W","V","1">>) },
    types     |-> { None },
    style_idx |-> { None },
    frags     |-> { <<"0">>, <<"1">> },
    max_records |-> 1,
    max_cells   |-> MaxCells,
    max_frags   |-> 1,
    text_anywhere |-> FALSE ]

InitAddr == ConvInit(AddrFamily, { <<>> }, { <<>> }, { FALSE })

SpecAddr == InitAddr /\ [][Next]_vars

\* ------------------------------------------------ SpecRef: cell addresses
\* parse_cell_ref on every string of at most MaxRefLen characters, each an
\* uppercase or lowercase letter, a digit, a sign or a blank.
RefAlphabet == {"A", "Z", "b", "0", "1", "+", "-", " "}

RefStrings == UNION { [1..n -> RefAlphabet] : n \in 0..MaxRefLen }

InitRef ==
  /\ Idle
  /\ proc = None
  /\ fn_arg \in { Some([ref |-> a]) : a \in RefStrings }
  /\ fn_ret = None

CallParseCellRef ==
  /\ result = "idle"
  /\ fn_ret = None
  /\ fn_ret' = Some(parse_cell_ref(Unwrap(fn_arg).ref))
  /\ UNCHANGED <<fn_arg, proc, conv_vars, hist_vars>>

NextRef == CallParseCellRef

SpecRef == InitRef /\ [][NextRef]_vars

\* ---------------------------------------------------------------------- C11
HasLetter(a) == \E i \in 1..Len(a) : a[i] \in UpperSet \cup LowerSet

HasDigit(a) == \E i \in 1..Len(a) : a[i] \in DigitSet

RefCalled == fn_ret # None /\ "ref" \in DOMAIN Unwrap(fn_arg)

\* C11: parse_cell_ref returns no reference for an address without a letter
\* or without a digit (only letters, only digits, empty, letters followed by
\* characters that are no digits).
C11_NoRefWithoutLettersOrDigits ==
  (RefCalled /\ (~HasLetter(Unwrap(fn_arg).ref) \/ ~HasDigit(Unwrap(fn_arg).ref)))
    => Unwrap(fn_ret) = None

C11_Witness ==
  /\ fn_arg = Some([ref |-> <<"A", "-">>])
  /\ fn_ret = Some(None)

\* ------------------------------------------------ SpecName: file names
\* to_lowercase_filename on every name of at most MaxNameLen characters, each
\* a letter, a digit, a dash, an underscore, a blank or a punctuation mark.
NameAlphabet == {"A", "b", "Z", "7", "-", "_", " ", "!"}

NameStrings == UNION { [1..n -> NameAlphabet] : n \in 0..MaxNameLen }

InitName ==
  /\ Idle
  /\ proc = None
  /\ fn_arg \in { Some([name |-> a]) : a \in NameStrings }
  /\ fn_ret = None

CallToLowercaseFilename ==
  /\ result = "idle"
  /\ fn_ret = None
  /\ fn_ret' = Some(to_lowercase_filename(Unwrap(fn_arg).name))
  /\ UNCHANGED <<fn_arg, proc, conv_vars, hist_vars>>

NextName == CallToLowercaseFilename

SpecName == InitName /\ [][NextName]_vars

\* ---------------------------------------------------------------------- C12
NameCalled == fn_ret # None /\ "name" \in DOMAIN Unwrap(fn_arg)

\* The lowercase form of a letter or digit, by its place in the alphabet.
LowerForm(c) ==
  IF c \in UpperSet THEN LowerSeq[CHOOSE k \in 1..26 : UpperSeq[k] = c] ELSE c

Matches(c) == c \in UpperSet \cup LowerSet \cup DigitSet \cup {"-", "_"}

SheetText == <<"s","h","e","e","t">>

\* Character by character: letters and digits in lowercase, '-' and '_'
\* kept, every other character replaced by '_'.
MappedCharByChar(name, file) ==
  /\ Len(file) = Len(name)
  /\ \A i \in 1..Len(name) :
       file[i] = IF Matches(name[i]) THEN LowerForm(name[i]) ELSE "_"

\* C12 as stated: the name is mapped character by character, and a name in
\* which no character matches, the empty name included, gives "sheet".
C12_FallbackForNonMatching ==
  NameCalled =>
    LET name == Unwrap(fn_arg).name
        file == Unwrap(fn_ret)
    IN IF \A i \in 1..Len(name) : ~Matches(name[i])
       THEN file = SheetText
       ELSE MappedCharByChar(name, file)

\* C12, amended: the name is mapped character by character (so a non-empty
\* name without a matching character becomes that many underscores), and
\* only the empty name gives "sheet".
C12_FallbackForEmpty ==
  NameCalled =>
    LET name == Unwrap(fn_arg).name
        file == Unwrap(fn_ret)
    IN IF name = <<>> THEN file = SheetText
       ELSE MappedCharByChar(name, file)

C12_Witness ==
  /\ fn_arg = Some([name |-> <<"A", "!", "7">>])
  /\ fn_ret = Some(<<"a", "_", "7">>)

\* ------------------------------------------------ SpecMain: the binary
\* One run of main (main.rs 259-313) on every command line and archive of a
\* small family.  The command line is the subcommand and, when one is given,
\* the value of a --delimiter option.  The archive holds at most MaxRels
\* Relationship elements and MaxSheets sheet elements; a worksheet part is
\* one row of cells without addresses, each with a type and one text.

\* target.trim_start_matches('/')
RECURSIVE trim_start_matches_slash(_)
trim_start_matches_slash(s) ==
  IF s # <<>> /\ Head(s) = "/" THEN trim_start_matches_slash(Tail(s)) ELSE s

\* The loop of parse_workbook_rels over the Relationship elements, in document
\* order: map.insert(id, format!("xl/{}", ...)) when both attributes are there.
RECURSIVE rels_loop(_, _)
rels_loop(elems, map) ==
  IF elems = <<>> THEN map
  ELSE LET e == Head(elems)
       IN rels_loop(Tail(elems),
            IF IsSome(e.id) /\ IsSome(e.target)
            THEN MapInsert(map, Unwrap(e.id),
                   <<"x","l","/">> \o trim_start_matches_slash(Unwrap(e.target)))
            ELSE map)

parse_workbook_rels(elems) == rels_loop(elems, EmptyMap)

\* A loop that pushes a sheet whenever it has a name, with the path of the
\* first relationship when its own id is not mapped.
RECURSIVE sheets_loop_any_id(_, _, _)
sheets_loop_any_id(decls, rels, sheets) ==
  IF decls = <<>> THEN sheets
  ELSE LET e == Head(decls)
       IN sheets_loop_any_id(Tail(decls), rels,
            IF IsSome(e.name) /\ DOMAIN rels # {}
            THEN Append(sheets,
                   [name |-> Unwrap(e.name),
                    path_in_zip |->
                      IF IsSome(e.id) /\ Unwrap(e.id) \in DOMAIN rels
                      THEN rels[Unwrap(e.id)]
                      ELSE rels[CHOOSE k \in DOMAIN rels : TRUE]])
            ELSE sheets)

\* The loop of parse_workbook over the sheet elements, in document order
\* (main.rs 85-113 repeats it): sheets.push(SheetInfo { name, path_in_zip })
\* when the element has a name and an id, and rels.get(&rid) is Some.
RECURSIVE sheets_loop(_, _, _)
sheets_loop(decls, rels, sheets) ==
  IF decls = <<>> THEN sheets
  ELSE LET e == Head(decls)
       IN sheets_loop(Tail(decls), rels,
            IF IsSome(e.name) /\ IsSome(e.id) /\ Unwrap(e.id) \in DOMAIN rels
            THEN Append(sheets, [name |-> Unwrap(e.name),
                                 path_in_zip |-> rels[Unwrap(e.id)]])
            ELSE sheets)

parse_workbook(decls, rels) == sheets_loop(decls, rels, <<>>)

\* The match on cell_type of the binary's converter (main.rs 229-236).
MainCellValue(type, val, strings) ==
  LET idx == ParseUnsigned(trim(val))
  IN IF type = Some(<<"s">>) THEN
       (IF IsSome(idx) THEN SharedStringAt(strings, Unwrap(idx)) ELSE <<>>)
     ELSE IF type = Some(<<"b">>) THEN BoolText(val)
     ELSE val

\* The binary's export_sheet_xml_to_csv (main.rs 182-257) on a worksheet part
\* of one row: every cell is appended to row_vals, and the row's end writes
\* row_vals as one record.
MainExportSheet(row, strings) ==
  << [i \in 1..Len(row) |-> MainCellValue(row[i].t, row[i].v, strings)] >>

\* format!("{}.csv", to_lowercase_filename(&sheet.name))
CsvName(name) == to_lowercase_filename(name) \o <<".","c","s","v">>

MaxRels == 2
MaxSheets == 2

\* The command lines: `xcsv <path> list` and `xcsv <path> export`, alone or
\* followed by `--delimiter <value>`.
CommandLines ==
  [ command : {"list", "export"},
    delimiter : {None, Some(","), Some(";"), Some("\t")} ]

RelElems ==
  { [id |-> Some("r1"), target |-> Some(<<"a">>)],
    [id |-> Some("r2"), target |-> Some(<<"/","b">>)],
    [id |-> None,       target |-> Some(<<"b">>)] }

SheetElems ==
  { [name |-> Some(<<"A">>),     id |-> Some("r1")],
    [name |-> Some(<<"b","!">>), id |-> Some("r2")],
    [name |-> Some(<<"C">>),     id |-> Some("r9")],
    [name |-> Some(<<"b"," ">>), id |-> Some("r1")],
    [name |-> None,              id |-> Some("r1")] }

SeqsUpTo(S, n) == UNION { [1..k -> S] : k \in 0..n }

\* The worksheet parts of the archive, by path.
PartA == <<"x","l","/","a">>
PartB == <<"x","l","/","b">>
RowS == << [t |-> Some(<<"s">>), v |-> <<"0">>] >>
RowN == << [t |-> None, v |-> <<"6","1">>], [t |-> Some(<<"s">>), v |-> <<"1">>] >>
PartSets ==
  { MapInsert(MapInsert(EmptyMap, PartA, RowS), PartB, RowN),
    MapInsert(EmptyMap, PartA, RowN),
    MapInsert(EmptyMap, PartB, RowS) }

\* The archives: xl/sharedStrings.xml, xl/_rels/workbook.xml.rels and
\* xl/workbook.xml are each missing (None) or present, xl/styles.xml is
\* present or not.
Archives ==
  [ shared : {None, Some(<< <<"h">> >>)},
    styles : BOOLEAN,
    rels : {None} \cup { Some(q) : q \in SeqsUpTo(RelElems, MaxRels) },
    workbook : {None} \cup { Some(q) : q \in SeqsUpTo(SheetElems, MaxSheets) },
    parts : PartSets ]

\* main's state before parse_args.
MainStart(args, zip) ==
  [ args |-> args, zip |-> zip, pc |-> "parse_args",
    shared_strings |-> <<>>, rels_map |-> EmptyMap, sheets |-> <<>>,
    next |-> 1, opened |-> <<>>, stdout |-> <<>>,
    files |-> EmptyMap, wrote |-> <<>> ]

InitMain ==
  /\ Idle
  /\ fn_arg = None
  /\ fn_ret = None
  /\ proc \in { MainStart(a, z) : a \in CommandLines, z \in Archives }

\* Cli::parse() on the derive of main.rs 12-33: the Export subcommand declares
\* --out-dir only, so a --delimiter option is an unexpected argument and clap
\* ends the process with a usage error; otherwise main goes on to the
\* subcommand (open_zip succeeding).
ParseArgs ==
  /\ proc.pc = "parse_args"
  /\ proc' = [proc EXCEPT !.pc = IF IsSome(proc.args.delimiter) THEN "usage"
                                 ELSE proc.args.command]
  /\ UNCHANGED <<fn_arg, fn_ret, conv_vars, hist_vars>>

\* A start of the export for which a missing shared-strings part is fatal.
ReadSharedStringsRequired ==
  /\ proc.pc = "export"
  /\ proc' = IF IsSome(proc.zip.shared)
             THEN [proc EXCEPT !.pc = "rels",
                               !.shared_strings = Unwrap(proc.zip.shared),
                               !.opened = Append(@, "sharedStrings")]
             ELSE [proc EXCEPT !.pc = "err"]
  /\ UNCHANGED <<fn_arg, fn_ret, conv_vars, hist_vars>>

\* Export: create_dir_all, then the shared strings if the part is present
\* (main.rs 280-286).
ReadSharedStrings ==
  /\ proc.pc = "export"
  /\ proc' = IF IsSome(proc.zip.shared)
             THEN [proc EXCEPT !.pc = "rels",
                               !.shared_strings = Unwrap(proc.zip.shared),
                               !.opened = Append(@, "sharedStrings")]
             ELSE [proc EXCEPT !.pc = "rels", !.shared_strings = <<>>]
  /\ UNCHANGED <<fn_arg, fn_ret, conv_vars, hist_vars>>

\* zip.by_name("xl/_rels/workbook.xml.rels").context(...)? and
\* parse_workbook_rels (main.rs 266-270 and 289-293).
ReadRels ==
  /\ proc.pc \in {"list", "rels"}
  /\ proc' = IF IsSome(proc.zip.rels)
             THEN [proc EXCEPT !.pc = "workbook",
                               !.rels_map = parse_workbook_rels(Unwrap(proc.zip.rels)),
                               !.opened = Append(@, "rels")]
             ELSE [proc EXCEPT !.pc = "err"]
  /\ UNCHANGED <<fn_arg, fn_ret, conv_vars, hist_vars>>

\* zip.by_name("xl/workbook.xml").context(...)? and parse_workbook
\* (main.rs 272-276 and 294-298).
ReadWorkbook ==
  /\ proc.pc = "workbook"
  /\ proc' = IF IsSome(proc.zip.workbook)
             THEN [proc EXCEPT !.pc = IF proc.args.command = "list"
                                      THEN "print" ELSE "sheets",
                               !.sheets = parse_workbook(Unwrap(proc.zip.workbook),
                                                         proc.rels_map),
                               !.opened = Append(@, "workbook")]
             ELSE [proc EXCEPT !.pc = "err"]
  /\ UNCHANGED <<fn_arg, fn_ret, conv_vars, hist_vars>>

\* for s in sheets { println!("{}", s.name); }
PrintSheets ==
  /\ proc.pc = "print"
  /\ proc' = [proc EXCEPT !.pc = "ok",
                          !.stdout = [i \in 1..Len(proc.sheets) |-> proc.sheets[i].name]]
  /\ UNCHANGED <<fn_arg, fn_ret, conv_vars, hist_vars>>

\* A turn of the loop that takes the converted sheet off the sheet list.
ExportSheetConsuming ==
  /\ proc.pc = "sheets"
  /\ proc.sheets # <<>>
  /\ LET sheet == Head(proc.sheets)
         filename == CsvName(sheet.name)
         records == MainExportSheet(proc.zip.parts[sheet.path_in_zip],
                                    proc.shared_strings)
     IN proc' = IF sheet.path_in_zip \in DOMAIN proc.zip.parts
                THEN [proc EXCEPT
                        !.sheets = Tail(@),
                        !.opened = Append(@, sheet.path_in_zip),
                        !.files = MapInsert(@, filename, records),
                        !.wrote = Append(@, [file |-> filename,
                                             part |-> sheet.path_in_zip,
                                             records |-> records])]
                ELSE [proc EXCEPT !.pc = "err"]
  /\ UNCHANGED <<fn_arg, fn_ret, conv_vars, hist_vars>>

\* One turn of `for sheet in sheets` (main.rs 301-309): the part is opened
\* (a missing part is fatal) and converted into <out_dir>/<name>.csv, which
\* csv's from_path creates or truncates.
ExportSheet ==
  /\ proc.pc = "sheets"
  /\ proc.next <= Len(proc.sheets)
  /\ LET sheet == proc.sheets[proc.next]
         filename == CsvName(sheet.name)
         records == MainExportSheet(proc.zip.parts[sheet.path_in_zip],
                                    proc.shared_strings)
     IN proc' = IF sheet.path_in_zip \in DOMAIN proc.zip.parts
                THEN [proc EXCEPT
                        !.next = @ + 1,
                        !.opened = Append(@, sheet.path_in_zip),
                        !.files = MapInsert(@, filename, records),
                        !.wrote = Append(@, [file |-> filename,
                                             part |-> sheet.path_in_zip,
                                             records |-> records])]
                ELSE [proc EXCEPT !.pc = "err"]
  /\ UNCHANGED <<fn_arg, fn_ret, conv_vars, hist_vars>>

\* The loop over the sheets is over: Ok(()).
ExportDone ==
  /\ proc.pc = "sheets"
  /\ proc.next > Len(proc.sheets)
  /\ proc' = [proc EXCEPT !.pc = "ok"]
  /\ UNCHANGED <<fn_arg, fn_ret, conv_vars, hist_vars>>

NextMain ==
  \/ ParseArgs
  \/ ReadSharedStrings
  \/ ReadRels
  \/ ReadWorkbook
  \/ PrintSheets
  \/ ExportSheet
  \/ ExportDone

SpecMain == InitMain /\ [][NextMain]_vars

\* ---------------------------------------------------------------------- C13
ExportRan == proc.args.command = "export" /\ proc.pc # "parse_args"

\* C13: the export operation accepts comma and semicolon as the output
\* delimiter and only those: a run given a delimiter is rejected as a usage
\* error exactly when the value is neither, and a rejected run has opened no
\* part and written no file.
C13_OnlyCommaOrSemicolon ==
  (ExportRan /\ IsSome(proc.args.delimiter)) =>
    /\ (proc.pc = "usage") <=> (Unwrap(proc.args.delimiter) \notin {",", ";"})
    /\ (proc.pc = "usage") => (proc.opened = <<>> /\ proc.wrote = <<>>)

\* ------------------------------------------------ SpecSst: shared strings
\* read_shared_strings on every string table of at most MaxEntries entries.
\* An entry is self-closing (<si/>) or an si element holding text runs
\* (<t>..</t>), none, one or two of them.
MaxEntries == 3

XmlEv(kind, name, text) == [kind |-> kind, name |-> name, text |-> text]

SstEntries ==
  { [closed |-> TRUE, runs |-> <<>>] } \cup
  { [closed |-> FALSE, runs |-> r] :
      r \in { <<>>, << <<"a">> >>, << <<" ","b">> >>, << <<"a">>, <<" ","b">> >> } }

RECURSIVE RunEvents(_)
RunEvents(runs) ==
  IF runs = <<>> THEN <<>>
  ELSE << XmlEv("Start", <<"t">>, <<>>), XmlEv("Text", <<>>, Head(runs)),
          XmlEv("End", <<"t">>, <<>>) >> \o RunEvents(Tail(runs))

\* The events quick-xml reads for one entry: Empty for a self-closing element,
\* Start ... End otherwise.
EntryEvents(e) ==
  IF e.closed THEN << XmlEv("Empty", <<"s","i">>, <<>>) >>
  ELSE << XmlEv("Start", <<"s","i">>, <<>>) >> \o RunEvents(e.runs)
         \o << XmlEv("End", <<"s","i">>, <<>>) >>

RECURSIVE SstEvents(_)
SstEvents(doc) ==
  IF doc = <<>> THEN <<>> ELSE EntryEvents(Head(doc)) \o SstEvents(Tail(doc))

\* The event loop of read_shared_strings (lib.rs 247-275): Start and End of an
\* si element and Text are handled, every other event (Event::Empty among
\* them) falls to `_ => {}`.
RECURSIVE sst_loop(_, _, _, _)
sst_loop(events, strings, in_si, current) ==
  IF events = <<>> THEN strings
  ELSE LET e == Head(events)
           si == tag_eq_ignore_case(e.name, <<"s","i">>)
       IN IF e.kind = "Start" /\ si
            THEN sst_loop(Tail(events), strings, TRUE, <<>>)
          ELSE IF e.kind = "End" /\ si
            THEN sst_loop(Tail(events), Append(strings, current), FALSE, current)
          ELSE IF e.kind = "Text" /\ in_si
            THEN sst_loop(Tail(events), strings, in_si, current \o e.text)
          ELSE sst_loop(Tail(events), strings, in_si, current)

read_shared_strings(events) == sst_loop(events, <<>>, FALSE, <<>>)

InitSst ==
  /\ Idle
  /\ proc = None
  /\ fn_arg \in { Some([sst |-> q]) : q \in SeqsUpTo(SstEntries, MaxEntries) }
  /\ fn_ret = None

CallReadSharedStrings ==
  /\ result = "idle"
  /\ fn_ret = None
  /\ fn_ret' = Some(read_shared_strings(SstEvents(Unwrap(fn_arg).sst)))
  /\ UNCHANGED <<fn_arg, proc, conv_vars, hist_vars>>

NextSst == CallReadSharedStrings

SpecSst == InitSst /\ [][NextSst]_vars

\* ---------------------------------------------------------------------- C14
SstCalled == fn_ret # None /\ "sst" \in DOMAIN Unwrap(fn_arg)

RECURSIVE Concat(_)
Concat(runs) == IF runs = <<>> THEN <<>> ELSE Head(runs) \o Concat(Tail(runs))

\* C14: read_shared_strings returns one string per declared entry, in
\* declaration order: entry i of the part (empty and self-closing entries
\* counted) is at position i of the result and is the concatenation of the
\* entry's text runs, untrimmed, equal entries kept apart.
C14_OneStringPerEntry ==
  SstCalled =>
    LET doc == Unwrap(fn_arg).sst
        ret == Unwrap(fn_ret)
    IN /\ Len(ret) = Len(doc)
       /\ \A i \in 1..Len(doc) : ret[i] = Concat(doc[i].runs)

\* ---------------------------------------------------------------------- C15
IsRowEndStep == ev'.kind = "RowEnd" /\ Len(open') = Len(open) - 1

\* One past the last non-empty position of a buffer, 0 when all are empty.
OnePastLastNonEmpty(v) ==
  CHOOSE n \in 0..Len(v) :
    /\ n > 0 => v[n] # <<>>
    /\ \A j \in (n + 1)..Len(v) : v[j] = <<>>

\* A buffer extended with empty strings to max(its length, n).
Extended(v, n) ==
  [i \in 1..(IF Len(v) < n THEN n ELSE Len(v)) |-> IF i <= Len(v) THEN v[i] ELSE <<>>]

\* C15: num_columns is set at the first Row end, to one past the last
\* non-empty position of that row's buffer, and no other step changes it; the
\* record written at a Row end is the buffer extended with empty strings to
\* max(buffer length, num_columns), never shortened.
C15_ColumnCountFixedOnce ==
  [][ /\ IsRowEndStep =>
           /\ num_columns' = IF num_columns = None
                             THEN Some(OnePastLastNonEmpty(row_vals))
                             ELSE num_columns
           /\ out' = Append(out, Extended(row_vals, Unwrap(num_columns')))
      /\ ~IsRowEndStep => num_columns' = num_columns
      /\ num_columns # None => num_columns' = num_columns ]_vars

C15_Witness ==
  /\ ev.kind = "RowEnd"
  /\ num_columns = Some(1)
  /\ out = << << <<"0">>, <<>> >>, << <<>> >> >>

\* ---------------------------------------------------------------------- C16
\* C16: an XML error ends the conversion with Err: the step that meets the
\* error writes no record and leaves the records written so far as they are,
\* and once the conversion has failed no record is written and the result
\* never becomes Ok.
C16_XmlErrorIsFatal ==
  [][ /\ (result = "run" /\ ev'.kind = "XmlError") => (result' = "err" /\ out' = out)
      /\ result = "err" => (result' = "err" /\ out' = out) ]_vars

C16_Witness ==
  /\ result = "err"
  /\ ev.kind = "XmlError"
  /\ Len(out) = 1
  /\ row_vals # <<>>

\* ---------------------------------------------------------------------- C17
\* C17: on a stream without an XML error no step of the conversion fails,
\* whatever the attributes and texts are, and the end of the input is reached
\* with Ok(()).
C17_NoStepFails ==
  /\ result # "panic"
  /\ ev.kind = "Eof" => result = "ok"

\* ---------------------------------------------------------------------- C18
WorkbookRead == proc.pc \in {"print", "sheets", "ok"}

\* The positions of the sheet elements that have a name and an id the
\* relationship map knows.
Listed(decls, rels) ==
  { i \in 1..Len(decls) :
      /\ IsSome(decls[i].name)
      /\ IsSome(decls[i].id)
      /\ Unwrap(decls[i].id) \in DOMAIN rels }

\* The k-th smallest member of a set of positions.
KthOf(S, k) == CHOOSE i \in S : Cardinality({ j \in S : j <= i }) = k

\* C18: the sheets parse_workbook returns are the declared sheet elements with
\* a name and a mapped relationship id, in declaration order, each with the
\* mapped path, and the list operation prints exactly their names in that
\* order.
C18_SheetsInDeclarationOrder ==
  WorkbookRead =>
    LET decls == Unwrap(proc.zip.workbook)
        S == Listed(decls, proc.rels_map)
    IN /\ Len(proc.sheets) = Cardinality(S)
       /\ \A k \in 1..Len(proc.sheets) :
            /\ proc.sheets[k].name = Unwrap(decls[KthOf(S, k)].name)
            /\ proc.sheets[k].path_in_zip = proc.rels_map[Unwrap(decls[KthOf(S, k)].id)]
       /\ (proc.args.command = "list" /\ proc.pc = "ok") =>
            /\ Len(proc.stdout) = Len(proc.sheets)
            /\ \A k \in 1..Len(proc.sheets) : proc.stdout[k] = proc.sheets[k].name

C18_Witness ==
  /\ proc.args.command = "list"
  /\ proc.pc = "ok"
  /\ Unwrap(proc.zip.workbook) =
       << [name |-> Some(<<"C">>), id |-> Some("r9")],
          [name |-> Some(<<"A">>), id |-> Some("r1")] >>
  /\ proc.stdout = << <<"A">> >>

\* ---------------------------------------------------------------------- C19
IsExport == proc.args.command = "export" /\ proc.args.delimiter = None

\* Some sheet of the manifest names a worksheet part the archive lacks.
SheetPartMissing ==
  \E k \in 1..Len(proc.sheets) : proc.sheets[k].path_in_zip \notin DOMAIN proc.zip.parts

\* The cells of the worksheet part behind the k-th file written.
CellsOf(k) == proc.zip.parts[proc.wrote[k].part]

\* C19: in an export, a missing shared-strings part gives the empty table
\* and every 's' cell is then written empty; without a styles part every
\* untyped cell is written as its text, never as a date; the export fails
\* only for a missing relationships, workbook or worksheet part, and when the
\* relationships or the workbook part is missing it fails with no sheet file
\* written.
C19_OptionalPartsTolerated ==
  IsExport =>
    /\ (proc.zip.shared = None /\ proc.pc \notin {"parse_args", "export"}) =>
         /\ proc.shared_strings = <<>>
         /\ \A k \in 1..Len(proc.wrote) : \A i \in 1..Len(CellsOf(k)) :
              CellsOf(k)[i].t = Some(<<"s">>) => proc.wrote[k].records[1][i] = <<>>
    /\ ~proc.zip.styles =>
         \A k \in 1..Len(proc.wrote) : \A i \in 1..Len(CellsOf(k)) :
           CellsOf(k)[i].t = None => proc.wrote[k].records[1][i] = CellsOf(k)[i].v
    /\ proc.pc = "err" =>
         \/ proc.zip.rels = None
         \/ proc.zip.workbook = None
         \/ SheetPartMissing
    /\ (proc.zip.rels = None \/ proc.zip.workbook = None) =>
         /\ proc.wrote = <<>>
         /\ proc.pc \in {"parse_args", "export", "rels", "workbook", "err"}

\* An export without shared strings and styles that wrote a sheet holding an
\* 's' cell and a number.
C19_Witness ==
  /\ IsExport
  /\ proc.pc = "ok"
  /\ proc.zip.shared = None
  /\ ~proc.zip.styles
  /\ Len(proc.wrote) = 1
  /\ proc.wrote[1].records = << << <<"6","1">>, <<>> >> >>

\* ---------------------------------------------------------------------- C20
\* The reader hands over the end of a cell: the store happens or fails.
CellEndHandled ==
  /\ result = "run"
  /\ open # <<>>
  /\ tag_eq_ignore_case(open[Len(open)], C)
  /\ \/ ev'.kind = "CellEnd"
     \/ (ev'.kind = "Panic" /\ ev'.at = "row_vals")

\* C20: at a Cell end the column is at least 1, the value is stored at
\* position column of the buffer (index column - 1) after the buffer was
\* extended with empty strings up to it, every other position keeps its
\* value, and a cell without a usable address goes one past the buffer's end.
C20_StoreWithinBuffer ==
  [][ CellEndHandled =>
        LET col == IF IsSome(cell_col) THEN Unwrap(cell_col) ELSE Len(row_vals) + 1
        IN /\ col >= 1
           /\ ev'.kind = "CellEnd"
           /\ Len(row_vals') = (IF Len(row_vals) < col THEN col ELSE Len(row_vals))
           /\ row_vals'[col] = ResolveCell(cell_type, cell_val, cell_style_idx,
                                           shared_strings, styles, is_1904)
           /\ \A i \in 1..Len(row_vals') :
                i # col => row_vals'[i] = (IF i <= Len(row_vals) THEN row_vals[i]
                                           ELSE <<>>) ]_vars

MaxXfs == 3

StyleEv(kind, name, attrs) == [kind |-> kind, name |-> name, attrs |-> attrs]

NoAttrs == [numFmtId |-> None, applyNumberFormat |-> None, formatCode |-> None]

XfWith(id) == [NoAttrs EXCEPT !.numFmtId = Some(id)]

FmtAttrs(id, code) == [NoAttrs EXCEPT !.numFmtId = Some(id), !.formatCode = Some(code)]

\* The elements of the model: what they are and the events the reader
\* reports for them.
XfEmpty164 == [el |-> "xf", events |-> << StyleEv("Empty", "xf", XfWith(<<"1","6","4">>)) >>]
XfEmpty0 == [el |-> "xf", events |-> << StyleEv("Empty", "xf", XfWith(<<"0">>)) >>]
XfStart14 ==
  [el |-> "xf",
   events |-> << StyleEv("Start", "xf", XfWith(<<"1","4">>)),
                 StyleEv("Empty", "alignment", NoAttrs),
                 StyleEv("End", "xf", NoAttrs) >>]
FmtEmpty164 ==
  [el |-> "numFmt",
   events |-> << StyleEv("Empty", "numFmt", FmtAttrs(<<"1","6","4">>, <<"y","y">>)) >>]
FmtStart164 ==
  [el |-> "numFmt",
   events |-> << StyleEv("Start", "numFmt", FmtAttrs(<<"1","6","4">>, <<"y","y">>)),
                 StyleEv("End", "numFmt", NoAttrs) >>]

InsideElems == { XfEmpty164, XfEmpty0, XfStart14, FmtEmpty164, FmtStart164 }
OutsideElems == { XfStart14, XfEmpty164, FmtEmpty164 }

StyleDocs ==
  [ before : SeqsUpTo(OutsideElems, 1),
    inside : SeqsUpTo(InsideElems, MaxXfs),
    after : SeqsUpTo(OutsideElems, 1) ]

RECURSIVE ElemEvents(_)
ElemEvents(elems) ==
  IF elems = <<>> THEN <<>> ELSE Head(elems).events \o ElemEvents(Tail(elems))

\* The events of a styles part: the elements before the section sit in a
\* cellStyleXfs element.
StyleEvents(doc) ==
  << StyleEv("Start", "cellStyleXfs", NoAttrs) >> \o ElemEvents(doc.before)
    \o << StyleEv("End", "cellStyleXfs", NoAttrs),
          StyleEv("Start", "cellXfs", NoAttrs) >> \o ElemEvents(doc.inside)
    \o << StyleEv("End", "cellXfs", NoAttrs) >> \o ElemEvents(doc.after)

\* The numFmt arms of parse_styles (lib.rs 75-93 and 105-122):
\* num_fmts.insert(id, code) when both attributes are there and the id parses.
InsertNumFmt(num_fmts, attrs) ==
  LET num_fmt_id == IF attrs.numFmtId = None THEN None
                    ELSE ParseUnsigned(Unwrap(attrs.numFmtId))
  IN IF IsSome(num_fmt_id) /\ IsSome(attrs.formatCode)
     THEN MapInsert(num_fmts, Unwrap(num_fmt_id), Unwrap(attrs.formatCode))
     ELSE num_fmts

\* xml.read_to_end_into(name, ..): the events after the End of that name.
RECURSIVE read_to_end(_, _)
read_to_end(events, name) ==
  IF events = <<>> THEN <<>>
  ELSE IF Head(events).kind = "End" /\ Head(events).name = name THEN Tail(events)
  ELSE read_to_end(Tail(events), name)

\* A loop that pushes a style for every xf, inside the section or not.
RECURSIVE styles_loop_every_xf(_, _, _, _)
styles_loop_every_xf(events, acc, num_fmts, in_cell_xfs) ==
  IF events = <<>> THEN acc
  ELSE LET e == Head(events)
           rest == Tail(events)
       IN IF e.kind \in {"Start", "Empty"} /\ e.name = "numFmt"
            THEN styles_loop_every_xf(IF e.kind = "Start" THEN read_to_end(rest, e.name) ELSE rest,
                                      acc, InsertNumFmt(num_fmts, e.attrs), in_cell_xfs)
          ELSE IF e.kind \in {"Start", "Empty"} /\ e.name = "xf"
            THEN styles_loop_every_xf(IF e.kind = "Start" THEN read_to_end(rest, e.name) ELSE rest,
                                      Append(acc, process_xf(e.attrs, num_fmts)),
                                      num_fmts, in_cell_xfs)
          ELSE styles_loop_every_xf(rest, acc, num_fmts, in_cell_xfs)

\* The event loop of parse_styles (lib.rs 72-139).
RECURSIVE styles_loop(_, _, _, _)
styles_loop(events, acc, num_fmts, in_cell_xfs) ==
  IF events = <<>> THEN acc
  ELSE LET e == Head(events)
           rest == Tail(events)
       IN IF e.kind \in {"Start", "Empty"} /\ e.name = "numFmt"
            THEN styles_loop(IF e.kind = "Start" THEN read_to_end(rest, e.name) ELSE rest,
                             acc, InsertNumFmt(num_fmts, e.attrs), in_cell_xfs)
          ELSE IF e.kind = "Start" /\ e.name = "cellXfs"
            THEN styles_loop(rest, acc, num_fmts, TRUE)
          ELSE IF e.kind \in {"Start", "Empty"} /\ e.name = "xf" /\ in_cell_xfs
            THEN styles_loop(IF e.kind = "Start" THEN read_to_end(rest, e.name) ELSE rest,
                             Append(acc, process_xf(e.attrs, num_fmts)),
                             num_fmts, in_cell_xfs)
          ELSE IF e.kind = "End" /\ e.name = "cellXfs"
            THEN styles_loop(rest, acc, num_fmts, FALSE)
          ELSE styles_loop(rest, acc, num_fmts, in_cell_xfs)

\* pub fn parse_styles<R: BufRead>(reader: R) -> Result<Vec<StyleInfo>>
parse_styles(events) == styles_loop(events, <<>>, EmptyMap, FALSE)

InitStyles ==
  /\ Idle
  /\ proc = None
  /\ fn_arg \in { Some([styles_doc |-> q]) : q \in StyleDocs }
  /\ fn_ret = None

CallParseStyles ==
  /\ result = "idle"
  /\ fn_ret = None
  /\ fn_ret' = Some(parse_styles(StyleEvents(Unwrap(fn_arg).styles_doc)))
  /\ UNCHANGED <<fn_arg, proc, conv_vars, hist_vars>>

NextStyles == CallParseStyles

SpecStyles == InitStyles /\ [][NextStyles]_vars

\* ---------------------------------------------------------------------- C22
StylesCalled == fn_ret # None /\ "styles_doc" \in DOMAIN Unwrap(fn_arg)

StylesDoc == Unwrap(fn_arg).styles_doc

\* The positions of the xf records in the cellXfs section.
XfPositions(doc) == { j \in 1..Len(doc.inside) : doc.inside[j].el = "xf" }

\* The attributes of the i-th xf record of the section.
XfRecord(doc, i) == Head(doc.inside[KthOf(XfPositions(doc), i)].events).attrs

\* The document defines the custom format 164 somewhere.
DefinesFormat(doc) ==
  \E q \in {doc.before, doc.inside, doc.after} :
    \E j \in 1..Len(q) : q[j].el = "numFmt"

\* Every format definition of the document.
AllFormats(doc) ==
  IF DefinesFormat(doc) THEN MapInsert(EmptyMap, 164, <<"y","y">>) ELSE EmptyMap

\* C22: the date flag of a style record is the one the record gets when every
\* format definition of the document is known, wherever the definitions
\* stand relative to the record.
C22_FlagIndependentOfOrder ==
  StylesCalled =>
    \A i \in 1..Len(Unwrap(fn_ret)) :
      i <= Cardinality(XfPositions(StylesDoc)) =>
        Unwrap(fn_ret)[i] = process_xf(XfRecord(StylesDoc, i), AllFormats(StylesDoc))

\* ---------------------------------------------------------------------- C23
\* The custom format is defined before the i-th xf record of the section.
DefinedBefore(doc, i) ==
  \/ \E j \in 1..Len(doc.before) : doc.before[j].el = "numFmt"
  \/ \E j \in 1..(KthOf(XfPositions(doc), i) - 1) : doc.inside[j].el = "numFmt"

\* C23: parse_styles returns one entry per xf record of the cellXfs section,
\* self-closing or not, in declaration order (entry i is the flag of the
\* i-th record: set for the built-in date format 14, clear for format 0, and
\* for the custom format 164 set when its definition was read before), and
\* no entry for an xf outside the section.
C23_OneStylePerXf ==
  StylesCalled =>
    /\ Len(Unwrap(fn_ret)) = Cardinality(XfPositions(StylesDoc))
    /\ \A i \in 1..Len(Unwrap(fn_ret)) :
         LET id == Unwrap(XfRecord(StylesDoc, i).numFmtId)
         IN Unwrap(fn_ret)[i].is_date =
              (\/ id = <<"1","4">>
               \/ id = <<"1","6","4">> /\ DefinedBefore(StylesDoc, i))

C23_Witness ==
  /\ StylesCalled
  /\ StylesDoc.before = << XfStart14 >>
  /\ StylesDoc.inside = << XfEmpty0, XfStart14 >>
  /\ StylesDoc.after = << XfEmpty164 >>
  /\ Unwrap(fn_ret) = << [is_date |-> FALSE], [is_date |-> TRUE] >>

\* ---------------------------------------------------------------------- C24
\* C24: every reference parse_cell_ref returns has a column of at least 1 and
\* a row of at least 1.
C24_RefColumnAndRowPositive ==
  (RefCalled /\ IsSome(Unwrap(fn_ret))) =>
    /\ Unwrap(Unwrap(fn_ret)).col >= 1
    /\ Unwrap(Unwrap(fn_ret)).row >= 1

\* ---------------------------------------------------------------------- C25
CellOpen == \E i \in 1..Len(open) : tag_eq_ignore_case(open[i], C)

\* C25: while no cell is open the accumulated text is empty, and a text event
\* that arrives outside any cell changes nothing of the converter's state.
C25_TextOnlyInsideCell == ~CellOpen => cell_val = <<>>

\* ---------------------------------------------------------------------- C26
\* What a Cell end stores for the text-carrying type tags.
VerbatimAtCellEnd ==
  ev'.kind = "CellEnd" =>
    /\ ev'.text = cell_val
    /\ ev'.type \in {Some(<<"i","n","l","i","n","e","S","t","r">>), Some(<<"s","t","r">>)}
         => row_vals'[Len(row_vals')] = cell_val
    /\ ev'.type = Some(<<"e">>)
         => row_vals'[Len(row_vals')] = <<"#","E","R","R","O","R",":">> \o cell_val

\* C26 as stated: the accumulated text starts empty at the cell's start, grows
\* by each text fragment in stream order, is changed by no other event before
\* the cell's end, and is stored verbatim for 'inlineStr' and 'str' and after
\* "#ERROR:" for 'e'.
C26_AllFragmentsSinceCellStart ==
  [][ /\ ev'.kind = "CellStart" => cell_val' = <<>>
      /\ ev'.kind = "Text" => \E txt \in cfg.frags : cell_val' = cell_val \o txt
      /\ ev'.kind \notin {"CellStart", "Text", "CellEnd"} => cell_val' = cell_val
      /\ VerbatimAtCellEnd ]_vars

\* C26 amended: as above, except that the start of an inline-string container
\* empties the accumulated text, so that the text at the cell's end is the
\* concatenation of the fragments received since the cell's start or since
\* the last inline-string start inside it.
C26_FragmentsSinceLastReset ==
  [][ /\ ev'.kind \in {"CellStart", "IsStart"} => cell_val' = <<>>
      /\ ev'.kind = "Text" => \E txt \in cfg.frags : cell_val' = cell_val \o txt
      /\ ev'.kind \notin {"CellStart", "IsStart", "Text", "CellEnd"} => cell_val' = cell_val
      /\ VerbatimAtCellEnd ]_vars

C26_Witness ==
  /\ ev.kind = "CellEnd"
  /\ ev.type = Some(<<"e">>)
  /\ ev.text = <<" ", "6", "1">>
  /\ row_vals = << <<"#","E","R","R","O","R",":"," ","6","1">> >>

\* ---------------------------------------------------------------------- C27
\* The lookup structures of main as the parts of the archive define them.
TablesBuilt ==
  /\ proc.shared_strings =
       (IF IsSome(proc.zip.shared) THEN Unwrap(proc.zip.shared) ELSE <<>>)
  /\ proc.rels_map = parse_workbook_rels(Unwrap(proc.zip.rels))
  /\ proc.sheets = parse_workbook(Unwrap(proc.zip.workbook), proc.rels_map)

ConvStart ==
  [ out |-> <<>>, num_columns |-> None, current_row_idx |-> 0, row_vals |-> <<>>,
    cell_col |-> None, cell_type |-> None, cell_style_idx |-> None,
    cell_val |-> <<>>, done |-> FALSE ]

SheetEv(kind, r, t, s, txt) == [kind |-> kind, r |-> r, t |-> t, s |-> s, txt |-> txt]

\* One turn of the event loop on the locals st (lib.rs 382-503, and the flush
\* of 505-509 at Eof), for elements named row, c and is, in a build without
\* overflow checks.
conv_step(st, e, strings, style_seq, epoch_1904) ==
  IF e.kind = "RowStart" THEN
    LET r_attr == RowAttr(e.r)
        next == IF IsSome(r_attr) THEN Unwrap(r_attr) ELSE st.current_row_idx + 1
        gap == GapLoop(st.out, st.current_row_idx, next)
    IN [st EXCEPT !.out = gap.out, !.current_row_idx = next, !.row_vals = <<>>]
  ELSE IF e.kind = "CellStart" THEN
    LET r_attr == IF e.r = None THEN None ELSE parse_cell_ref(Unwrap(e.r))
    IN [st EXCEPT
          !.cell_col = IF IsSome(r_attr) THEN Some(Unwrap(r_attr).col) ELSE None,
          !.cell_type = e.t,
          !.cell_val = <<>>,
          !.cell_style_idx = IF e.s = None THEN None ELSE ParseUnsigned(Unwrap(e.s))]
  ELSE IF e.kind = "IsStart" THEN [st EXCEPT !.cell_val = <<>>]
  ELSE IF e.kind = "Text" THEN
    (IF e.txt # <<>> THEN [st EXCEPT !.cell_val = @ \o e.txt] ELSE st)
  ELSE IF e.kind = "CellEnd" THEN
    LET col == StoreCol(st.cell_col, st.row_vals)
        v == ResolveCell(st.cell_type, st.cell_val, st.cell_style_idx, strings,
                         style_seq, epoch_1904)
    IN [st EXCEPT !.row_vals = [Grow(st.row_vals, col) EXCEPT ![col] = v],
                  !.cell_col = None, !.cell_type = None, !.cell_val = <<>>,
                  !.cell_style_idx = None]
  ELSE IF e.kind = "RowEnd" THEN
    LET n == IF st.num_columns = None THEN LastNonEmpty(st.row_vals)
             ELSE Unwrap(st.num_columns)
    IN [st EXCEPT !.num_columns = Some(n),
                  !.out = Append(@, Grow(st.row_vals, n)),
                  !.row_vals = <<>>]
  ELSE IF e.kind = "Eof" THEN
    [st EXCEPT !.out = IF st.row_vals # <<>> THEN Append(@, st.row_vals) ELSE @,
               !.done = TRUE]
  ELSE st

\* Three worksheet streams.
EvRowStart(r) == SheetEv("RowStart", r, None, None, <<>>)
EvCellStart(r, t) == SheetEv("CellStart", r, t, None, <<>>)
EvText(txt) == SheetEv("Text", None, None, None, txt)
EvCellEnd == SheetEv("CellEnd", None, None, None, <<>>)
EvRowEnd == SheetEv("RowEnd", None, None, None, <<>>)
EvEof == SheetEv("Eof", None, None, None, <<>>)

SheetX ==
  << EvRowStart(None), EvCellStart(Some(<<"A","1">>), None), EvText(<<"0">>), EvCellEnd,
     EvCellStart(Some(<<"B","1">>), None), EvCellEnd, EvRowEnd, EvEof >>
SheetY ==
  << EvRowStart(Some(<<"2">>)), EvCellStart(None, Some(<<"s">>)), EvText(<<"1">>), EvCellEnd,
     EvCellStart(None, None), EvText(<<"0">>), EvCellEnd, EvRowEnd,
     EvRowStart(None), EvRowEnd, EvEof >>
SheetZ ==
  << EvRowStart(None), EvRowEnd, EvRowStart(None),
     EvCellStart(Some(<<"C","2">>), None), EvText(<<"1">>), EvCellEnd, EvEof >>

SheetStreams == { SheetX, SheetY, SheetZ }

PairStrings == << <<"h">>, <<"w">> >>

InitPair ==
  /\ Idle
  /\ proc = None
  /\ fn_arg \in { Some([streams |-> <<a, b>>]) : a \in SheetStreams, b \in SheetStreams }
  /\ fn_ret = Some([pos |-> <<0, 0>>, st |-> <<ConvStart, ConvStart>>])

\* A conversion step that also hands the column count it knows to the other
\* conversion, as a count kept in one place for all sheets would.
ConvertStepSharedWidth ==
  /\ result = "idle"
  /\ "streams" \in DOMAIN Unwrap(fn_arg)
  /\ \E k \in 1..2 :
       LET run == Unwrap(fn_ret)
           stream == Unwrap(fn_arg).streams[k]
           next == conv_step(run.st[k], stream[run.pos[k] + 1], PairStrings, <<>>, FALSE)
       IN /\ run.pos[k] < Len(stream)
          /\ fn_ret' = Some([pos |-> [run.pos EXCEPT ![k] = @ + 1],
                             st |-> [j \in 1..2 |->
                                       IF j = k THEN next
                                       ELSE [run.st[j] EXCEPT !.num_columns = next.num_columns]]])
  /\ UNCHANGED <<fn_arg, proc, conv_vars, hist_vars>>

\* The next event of one of the two streams is handled by its own call.
ConvertStep ==
  /\ result = "idle"
  /\ "streams" \in DOMAIN Unwrap(fn_arg)
  /\ \E k \in 1..2 :
       LET run == Unwrap(fn_ret)
           stream == Unwrap(fn_arg).streams[k]
       IN /\ run.pos[k] < Len(stream)
          /\ fn_ret' = Some([pos |-> [run.pos EXCEPT ![k] = @ + 1],
                             st |-> [run.st EXCEPT ![k] =
                                       conv_step(@, stream[run.pos[k] + 1],
                                                 PairStrings, <<>>, FALSE)]])
  /\ UNCHANGED <<fn_arg, proc, conv_vars, hist_vars>>

NextPair == ConvertStep

SpecPair == InitPair /\ [][NextPair]_vars

\* ---------------------------------------------------------------------- C28
\* The locals of one call after the events of a stream, handled alone.
RECURSIVE RunAlone(_, _)
RunAlone(events, st) ==
  IF events = <<>> THEN st
  ELSE RunAlone(Tail(events), conv_step(st, Head(events), PairStrings, <<>>, FALSE))

MaxSheetRows == 3

SheetRowAttrs ==
  { None, Some(<<"0">>), Some(<<"1">>), Some(<<"2">>), Some(<<"3">>), Some(<<"5">>),
    Some(<<"x">>) }

SheetRows == SeqsUpTo([r : SheetRowAttrs, filled : BOOLEAN], MaxSheetRows)

\* The events of one row element.
RowElemEvents(row) ==
  <<EvRowStart(row.r)>>
    \o (IF row.filled THEN <<EvCellStart(None, None), EvText(<<"0">>), EvCellEnd>> ELSE <<>>)
    \o <<EvRowEnd>>

RECURSIVE SheetEvents(_)
SheetEvents(rows) ==
  IF rows = <<>> THEN <<EvEof>> ELSE RowElemEvents(Head(rows)) \o SheetEvents(Tail(rows))

\* The locals after each event of a stream, in order.
RECURSIVE RunTrace(_, _)
RunTrace(events, st) ==
  IF events = <<>> THEN <<>>
  ELSE LET next == conv_step(st, Head(events), <<>>, <<>>, FALSE)
       IN <<next>> \o RunTrace(Tail(events), next)

InitSheet ==
  /\ Idle
  /\ proc = None
  /\ fn_arg \in { Some([rows |-> rows]) : rows \in SheetRows }
  /\ fn_ret = None

CallExportSheet ==
  /\ result = "idle"
  /\ fn_ret = None
  /\ "rows" \in DOMAIN Unwrap(fn_arg)
  /\ fn_ret' = Some(RunTrace(SheetEvents(Unwrap(fn_arg).rows), ConvStart))
  /\ UNCHANGED <<fn_arg, proc, conv_vars, hist_vars>>

NextSheet == CallExportSheet

SpecSheet == InitSheet /\ [][NextSheet]_vars

\* ---------------------------------------------------------------------- C29
SheetCalled == fn_ret # None

\* The number of row k: the declared one, or the previous number plus one.
RECURSIVE RowNumber(_, _)
RowNumber(rows, k) ==
  IF k = 0 THEN 0
  ELSE IF IsSome(RowAttr(rows[k].r)) THEN Unwrap(RowAttr(rows[k].r))
  ELSE RowNumber(rows, k - 1) + 1

StrictlyIncreasing(rows) ==
  \A k \in 1..Len(rows) : RowNumber(rows, k) > RowNumber(rows, k - 1)

\* C29: when the row numbers of a worksheet are strictly increasing positive
\* numbers, after every Row end the number of records written equals
\* current_row_idx, which is the number of that row.
C29_RecordCountIsRowNumber ==
  (SheetCalled /\ StrictlyIncreasing(Unwrap(fn_arg).rows)) =>
    LET events == SheetEvents(Unwrap(fn_arg).rows)
        trace == Unwrap(fn_ret)
    IN \A i \in 1..Len(events) :
         events[i].kind = "RowEnd" =>
           /\ Len(trace[i].out) = trace[i].current_row_idx
           /\ trace[i].current_row_idx =
                RowNumber(Unwrap(fn_arg).rows,
                          Cardinality({j \in 1..i : events[j].kind = "RowEnd"}))

C29_Witness ==
  /\ SheetCalled
  /\ Len(Unwrap(fn_arg).rows) = 3
  /\ StrictlyIncreasing(Unwrap(fn_arg).rows)
  /\ Unwrap(fn_arg).rows[1].r = Some(<<"2">>)
  /\ Unwrap(fn_arg).rows[2].r = None
  /\ Unwrap(fn_arg).rows[3].r = Some(<<"5">>)
  /\ Len(Unwrap(fn_ret)[Len(Unwrap(fn_ret))].out) = 5

\* ---------------------------------------------------------------------- C30
\* The record rec holds the values of the row buffer v, in their places, and
\* nothing else.
BuiltFrom(rec, v) ==
  /\ Len(rec) >= Len(v)
  /\ \A j \in 1..Len(rec) : rec[j] = (IF j <= Len(v) THEN v[j] ELSE <<>>)

\* C30: the output is append-only, the row buffer is empty right after every
\* row start and every row end, and every record written is either an empty
\* gap record or the row buffer of that moment, so that a record holds values
\* of the cells stored since the last row start only.
C30_AppendOnlyRowsApart ==
  [][ /\ Len(out') >= Len(out)
      /\ SubSeq(out', 1, Len(out)) = out
      /\ (IsRowStartStep \/ IsRowEndStep) => row_vals' = <<>>
      /\ \A i \in (Len(out) + 1)..Len(out') :
           \/ ev'.kind = "RowStart" /\ out'[i] = <<>>
           \/ /\ ev'.kind \in {"RowEnd", "Eof"}
              /\ i = Len(out) + 1
              /\ BuiltFrom(out'[i], row_vals) ]_vars

C30_Witness ==
  /\ ev.kind = "RowEnd"
  /\ row_vals = <<>>
  /\ Len(out) = 2
  /\ out[1] = << <<"0">> >>
  /\ out[2] = << <<"h">> >>

\* ------------------------------------- SpecTwin: the binary and the library
\* The binary's own export_sheet_xml_to_csv (main.rs 182-257) and the
\* library's (lib.rs 359-510) on the same worksheet stream, with the same
\* shared strings, no styles and the 1900 epoch.

\* The locals of the binary's converter before the first event
\* (main.rs 188-192) and the records handed to its writer.
MainConvStart ==
  [ out |-> <<>>, current_row_idx |-> 0, row_vals |-> <<>>, cell_col |-> None,
    cell_type |-> None, cell_val |-> <<>>, done |-> FALSE ]

\* One turn of the binary's event loop (main.rs 194-253, and the flush of
\* 254-256 at Eof).  Its reader trims text (trim_text(true), main.rs 184)
\* and reports no text that is empty after trimming.
main_conv_step(st, e, strings) ==
  IF e.kind = "RowStart" THEN
    LET r_attr == RowAttr(e.r)
        next == IF IsSome(r_attr) THEN Unwrap(r_attr) ELSE st.current_row_idx + 1
        gap == GapLoop(st.out, st.current_row_idx, next)
    IN [st EXCEPT !.out = gap.out, !.current_row_idx = next, !.row_vals = <<>>]
  ELSE IF e.kind = "CellStart" THEN
    LET r_attr == IF e.r = None THEN None ELSE parse_cell_ref(Unwrap(e.r))
    IN [st EXCEPT
          !.cell_col = IF IsSome(r_attr) THEN Some(Unwrap(r_attr).col) ELSE None,
          !.cell_type = e.t,
          !.cell_val = <<>>]
  ELSE IF e.kind = "Text" THEN
    (IF trim(e.txt) # <<>> THEN [st EXCEPT !.cell_val = @ \o trim(e.txt)] ELSE st)
  ELSE IF e.kind = "CellEnd" THEN
    LET col == StoreCol(st.cell_col, st.row_vals)
        v == MainCellValue(st.cell_type, st.cell_val, strings)
    IN [st EXCEPT !.row_vals = [Grow(st.row_vals, col) EXCEPT ![col] = v],
                  !.cell_col = None, !.cell_type = None, !.cell_val = <<>>]
  ELSE IF e.kind = "RowEnd" THEN
    [st EXCEPT !.out = Append(@, st.row_vals), !.row_vals = <<>>]
  ELSE IF e.kind = "Eof" THEN
    [st EXCEPT !.out = IF st.row_vals # <<>> THEN Append(@, st.row_vals) ELSE @,
               !.done = TRUE]
  ELSE st

RECURSIVE MainRunAlone(_, _, _)
MainRunAlone(events, st, strings) ==
  IF events = <<>> THEN st
  ELSE MainRunAlone(Tail(events), main_conv_step(st, Head(events), strings), strings)

RECURSIVE LibRunAlone(_, _, _)
LibRunAlone(events, st, strings) ==
  IF events = <<>> THEN st
  ELSE LibRunAlone(Tail(events), conv_step(st, Head(events), strings, <<>>, FALSE), strings)

\* Worksheets of up to MaxTwinRows rows of up to MaxTwinCells cells: cells
\* with and without an address, untyped, shared-string and error cells, text
\* with and without blanks around it.
MaxTwinRows == 2
MaxTwinCells == 2

TwinCells ==
  [ r : { None, Some(<<"B","1">>) },
    t : { None, Some(<<"s">>), Some(<<"e">>) },
    txt : { <<"0">>, <<" ","1">> } ]

TwinSheets == SeqsUpTo(SeqsUpTo(TwinCells, MaxTwinCells), MaxTwinRows)

CellElemEvents(cell) == <<EvCellStart(cell.r, cell.t), EvText(cell.txt), EvCellEnd>>

RECURSIVE CellsEvents(_)
CellsEvents(row) ==
  IF row = <<>> THEN <<>> ELSE CellElemEvents(Head(row)) \o CellsEvents(Tail(row))

RECURSIVE TwinEvents(_)
TwinEvents(rows) ==
  IF rows = <<>> THEN <<EvEof>>
  ELSE <<EvRowStart(None)>> \o CellsEvents(Head(rows)) \o <<EvRowEnd>>
         \o TwinEvents(Tail(rows))

InitTwin ==
  /\ Idle
  /\ proc = None
  /\ fn_arg \in { Some([sheet |-> s]) : s \in TwinSheets }
  /\ fn_ret = None

\* Both converters are called on the worksheet.
CallBothConverters ==
  /\ result = "idle"
  /\ fn_ret = None
  /\ "sheet" \in DOMAIN Unwrap(fn_arg)
  /\ fn_ret' = Some([bin |-> MainRunAlone(TwinEvents(Unwrap(fn_arg).sheet),
                                          MainConvStart, PairStrings).out,
                     lib |-> LibRunAlone(TwinEvents(Unwrap(fn_arg).sheet),
                                         ConvStart, PairStrings).out])
  /\ UNCHANGED <<fn_arg, proc, conv_vars, hist_vars>>

NextTwin == CallBothConverters

SpecTwin == InitTwin /\ [][NextTwin]_vars

\* ---------------------------------------------------------------------- C31
TwinCalled == fn_ret # None

\* C31: on every worksheet stream the binary's export and the library's
\* converter (comma delimiter, same shared strings, the workbook's styles and
\* epoch flag) write the same sequence of records.
C31_BinaryWritesLibraryRecords ==
  TwinCalled => Unwrap(fn_ret).bin = Unwrap(fn_ret).lib

\* ---------------------------------------------------------------------- C32
\* C32: in one export run two sheets with different display names are
\* written to different file names, and the file of every sheet written so
\* far still holds that sheet's records.
C32_OneFilePerSheet ==
  proc.args.command = "export" =>
    \A i \in 1..Len(proc.wrote) :
      /\ proc.files[proc.wrote[i].file] = proc.wrote[i].records
      /\ \A j \in 1..Len(proc.wrote) :
           proc.sheets[i].name # proc.sheets[j].name =>
             proc.wrote[i].file # proc.wrote[j].file

=============================================================================
